---- MODULE Spec2Model ----
(***************************************************************************)
(* GitDiagram++ (src/app.py): the repository-tree walker, the Python       *)
(* import extractor and the phase pipeline of analyze_repository.          *)
(*                                                                         *)
(* Strings of the program (names, paths, file contents) are TLA+ strings,  *)
(* handled character by character with Len, SubSeq and \o.  A Python dict  *)
(* is a function whose domain is the set of its keys; an insertion under   *)
(* an existing key overwrites, as in Python.                               *)
(***************************************************************************)
EXTENDS Integers, Sequences, FiniteSets, TLC

VARIABLES
    pc,              \* position of the run
    remote,          \* the repository: directory path -> its listing
    failing,         \* directory paths whose get_contents call fails
    file_structure,  \* self.file_structure
    build_raised,    \* _build_file_tree raised into _analyze_file_structure
    escaped,         \* an exception left the handler that just ran
    python_files,    \* the list _get_files_by_extension returned
    content,         \* the decoded text handed to _extract_python_imports
    extracted,       \* what _extract_python_imports returned
    dependencies,    \* self.dependencies
    repo_data,       \* self.repo_data
    commit_data,     \* self.commit_data
    contributor_data,   \* self.contributor_data
    contributor_stats,  \* self.contributor_stats
    report,          \* what analyze_repository returned
    phases,          \* the phases of the run that have run, in order
    caught,          \* the phases in which a handler caught a failure
    calls,           \* the calls out of the program so far, in order
    repo_url,        \* the repo_url argument of the run
    fetched,         \* what the fetch of each source file gave
    got_commits,     \* what repo.get_commits gave
    languages,       \* the tally of _create_language_distribution
    before,          \* the fields of the instance when the current call began
    exit_code        \* what main returned

runVarsButPhases == <<repo_data, commit_data, contributor_data, contributor_stats,
                      report, caught, calls, repo_url, fetched, got_commits, languages, before,
                      exit_code>>

runVars == <<repo_data, commit_data, contributor_data, contributor_stats, report,
             phases, caught, calls, repo_url, fetched, got_commits, languages, before, exit_code>>

vars == <<pc, remote, failing, file_structure, build_raised, escaped,
          python_files, content, extracted, dependencies, runVars>>

(***************************************************************************)
(* Bounds of the model.                                                    *)
(***************************************************************************)
MaxRootEntries == 2
MaxSubEntries == 2
MaxLeafEntries == 1
MaxLines == 3
MaxCommits == 2
MaxCommitsOverCap == 1
MaxFilesOverCap == 1

(***************************************************************************)
(* Strings.                                                                *)
(***************************************************************************)
CharAt(s, i) == SubSeq(s, i, i)

\* str.endswith
EndsWith(s, suffix) ==
    /\ Len(s) >= Len(suffix)
    /\ SubSeq(s, Len(s) - Len(suffix) + 1, Len(s)) = suffix

\* str.startswith at an offset: s[i:].startswith(prefix), i counted from 1
StartsWithAt(s, i, prefix) ==
    /\ i + Len(prefix) - 1 <= Len(s)
    /\ SubSeq(s, i, i + Len(prefix) - 1) = prefix

LowerChar(c) ==
    CASE c = "A" -> "a"
      [] c = "P" -> "p"
      [] c = "Y" -> "y"
      [] c = "M" -> "m"
      [] c = "D" -> "d"
      [] OTHER -> c

RECURSIVE LowerFrom(_, _)
LowerFrom(s, i) ==
    IF i > Len(s) THEN "" ELSE LowerChar(CharAt(s, i)) \o LowerFrom(s, i + 1)

\* str.lower
Lower(s) == LowerFrom(s, 1)

RECURSIVE RFindFrom(_, _, _)
RFindFrom(s, c, i) ==
    IF i = 0 THEN 0
    ELSE IF CharAt(s, i) = c THEN i ELSE RFindFrom(s, c, i - 1)

\* str.rfind of one character, positions counted from 1, 0 when absent
RFind(s, c) == RFindFrom(s, c, Len(s))

\* pathlib's PurePath.suffix of a file name
Suffix(name) ==
    LET i == RFind(name, ".")
    IN  IF 1 < i /\ i < Len(name) THEN SubSeq(name, i, Len(name)) ELSE ""

(***************************************************************************)
(* Dicts.                                                                  *)
(***************************************************************************)
EmptyDict == [k \in {} |-> 0]

\* d[k] = v
Put(d, k, v) == (k :> v) @@ d

(***************************************************************************)
(* The remote repository: what repo.get_contents answers.  A listing is a  *)
(* sequence of ContentFile entries; an entry reports its own path, which   *)
(* the hosting API forms from the directory's path and the entry's name.   *)
(***************************************************************************)
RemotePath(dir, name) == IF dir = "" THEN name ELSE dir \o "/" \o name

FileEntry(dir, name, size) ==
    [name |-> name, type |-> "file", size |-> size, path |-> RemotePath(dir, name)]

DirEntry(dir, name) ==
    [name |-> name, type |-> "dir", size |-> 0, path |-> RemotePath(dir, name)]

\* an entry of malformed shape: it carries no size attribute
MalformedEntry(dir, name) ==
    [name |-> name, type |-> "file", path |-> RemotePath(dir, name)]

HasAttr(entry, attr) == attr \in DOMAIN entry

RootCandidates ==
    { FileEntry("", "a.py", 10), FileEntry("", "A.PY", 20), DirEntry("", "d"),
      MalformedEntry("", "m") }

SubCandidates ==
    { FileEntry("d", "b.md", 7), DirEntry("d", "e"), MalformedEntry("d", "m") }

LeafCandidates ==
    { FileEntry("d/e", "x.py", 1), FileEntry("d/e", ".py", 2), FileEntry("d/e", "t.txt", 3) }

SeqsUpTo(S, n) == UNION { [1..k -> S] : k \in 0..n }

HasDir(listing, name) ==
    \E i \in 1..Len(listing) : listing[i].type = "dir" /\ listing[i].name = name

\* every repository of the model: a root listing, the listing of d when the
\* root holds d, the listing of d/e when d holds e
Repositories ==
    { [p \in {""} \cup (IF HasDir(r, "d") THEN {"d"} ELSE {})
                  \cup (IF HasDir(r, "d") /\ HasDir(s, "e") THEN {"d/e"} ELSE {})
          |-> CASE p = "" -> r [] p = "d" -> s [] OTHER -> l] :
      <<r, s, l>> \in { t \in SeqsUpTo(RootCandidates, MaxRootEntries)
                              \X SeqsUpTo(SubCandidates, MaxSubEntries)
                              \X SeqsUpTo(LeafCandidates, MaxLeafEntries) : TRUE } }

\* repo.get_contents(path): the listing, or a failure
GetContents(rem, fail, path) ==
    IF path \in fail \/ path \notin DOMAIN rem
    THEN [raised |-> TRUE, value |-> <<>>]
    ELSE [raised |-> FALSE, value |-> rem[path]]

(***************************************************************************)
(* TreeBuilder.                                                            *)
(***************************************************************************)
Extensions ==
    [ext \in {".py", ".js", ".ts", ".java", ".cpp", ".c", ".cs", ".go", ".rs",
              ".php", ".rb", ".swift", ".kt", ".scala", ".r", ".sql", ".sh",
              ".yml", ".yaml", ".json", ".xml", ".html", ".css", ".md"} |->
        CASE ext = ".py" -> "Python"
          [] ext = ".js" -> "JavaScript"
          [] ext = ".ts" -> "TypeScript"
          [] ext = ".java" -> "Java"
          [] ext = ".cpp" -> "C++"
          [] ext = ".c" -> "C"
          [] ext = ".cs" -> "C#"
          [] ext = ".go" -> "Go"
          [] ext = ".rs" -> "Rust"
          [] ext = ".php" -> "PHP"
          [] ext = ".rb" -> "Ruby"
          [] ext = ".swift" -> "Swift"
          [] ext = ".kt" -> "Kotlin"
          [] ext = ".scala" -> "Scala"
          [] ext = ".r" -> "R"
          [] ext = ".sql" -> "SQL"
          [] ext = ".sh" -> "Shell"
          [] ext = ".yml" -> "YAML"
          [] ext = ".yaml" -> "YAML"
          [] ext = ".json" -> "JSON"
          [] ext = ".xml" -> "XML"
          [] ext = ".html" -> "HTML"
          [] ext = ".css" -> "CSS"
          [] OTHER -> "Markdown"]

\* the lookup without .lower()
detect_language_as_written(filename) ==
    IF Suffix(filename) \in DOMAIN Extensions THEN Extensions[Suffix(filename)]
    ELSE "Unknown"

detect_language(filename) ==
    LET ext == Lower(Suffix(filename))
    IN  IF ext \in DOMAIN Extensions THEN Extensions[ext] ELSE "Unknown"

Raised == [raised |-> TRUE, tree |-> EmptyDict]

Returned(tree) == [raised |-> FALSE, tree |-> tree]

\* the except branch with the children key forgotten
DirFallbackNoChildren(entry) == [type |-> "dir", path |-> entry.path]

\* the except branch recording the name where the path belongs
DirFallbackNamed(entry) == [type |-> "dir", path |-> entry.name, children |-> EmptyDict]

\* the except branch of the directory case
DirFallback(entry) ==
    [type |-> "dir", path |-> entry.path, children |-> EmptyDict]

RECURSIVE build_file_tree(_, _, _)
RECURSIVE BuildLoop(_, _, _, _, _)

\* one pass of the for loop of _build_file_tree, from entry i on
BuildLoop(rem, fail, contents, i, tree) ==
    IF i > Len(contents) THEN Returned(tree)
    ELSE LET entry == contents[i]
         IN  IF entry.type = "dir"
             THEN LET sub == GetContents(rem, fail, entry.path)
                      built == IF sub.raised THEN Raised
                               ELSE build_file_tree(rem, fail, sub.value)
                      node == IF built.raised THEN DirFallback(entry)
                              ELSE [type |-> "dir", path |-> entry.path,
                                    children |-> built.tree]
                  IN  BuildLoop(rem, fail, contents, i + 1, Put(tree, entry.name, node))
             ELSE IF ~HasAttr(entry, "size") THEN Raised
             ELSE BuildLoop(rem, fail, contents, i + 1,
                            Put(tree, entry.name,
                                [type |-> "file", path |-> entry.path,
                                 size |-> entry.size,
                                 language |-> detect_language(entry.name)]))

build_file_tree(rem, fail, contents) == BuildLoop(rem, fail, contents, 1, EmptyDict)

RECURSIVE count_files(_)
RECURSIVE CountOver(_, _)

\* the for loop of _count_files over the keys not yet visited
CountOver(structure, keys) ==
    IF keys = {} THEN 0
    ELSE LET name == CHOOSE k \in keys : TRUE
             data == structure[name]
             here == IF data.type = "file" THEN 1
                     ELSE IF data.type = "dir" /\ "children" \in DOMAIN data
                          THEN count_files(data.children)
                          ELSE 0
         IN  here + CountOver(structure, keys \ {name})

\* count started at 1 instead of 0
count_files_from_one(structure) == 1 + CountOver(structure, DOMAIN structure)

count_files(structure) == CountOver(structure, DOMAIN structure)

RECURSIVE search_contents(_, _, _, _)
RECURSIVE SearchLoop(_, _, _, _, _, _)

\* the for loop of search_contents from entry i on; files is the list so far
SearchLoop(rem, fail, extension, contents, i, files) ==
    IF i > Len(contents) THEN files
    ELSE LET entry == contents[i]
         IN  IF entry.type = "file" /\ EndsWith(entry.name, extension)
             THEN SearchLoop(rem, fail, extension, contents, i + 1,
                             Append(files, entry.path))
             ELSE IF entry.type = "dir"
             THEN LET sub == GetContents(rem, fail, entry.path)
                      after == IF sub.raised THEN files
                               ELSE search_contents(rem, fail, extension,
                                                    [contents |-> sub.value, files |-> files])
                  IN  SearchLoop(rem, fail, extension, contents, i + 1, after)
             ELSE SearchLoop(rem, fail, extension, contents, i + 1, files)

search_contents(rem, fail, extension, arg) ==
    SearchLoop(rem, fail, extension, arg.contents, 1, arg.files)

get_files_by_extension(rem, fail, extension) ==
    LET initial_contents == GetContents(rem, fail, "")
    IN  IF initial_contents.raised THEN <<>>
        ELSE search_contents(rem, fail, extension,
                             [contents |-> initial_contents.value, files |-> <<>>])

(***************************************************************************)
(* ImportExtractor: the text.                                              *)
(***************************************************************************)
\* what the regular expression class \s accepts
IsSpace(c) == c \in {" ", "\t", "\n", "\r", "\f"}

Letters ==
    {"a", "b", "c", "d", "e", "f", "g", "h", "i", "j", "k", "l", "m", "n", "o",
     "p", "q", "r", "s", "t", "u", "v", "w", "x", "y", "z", "_"}

\* stands for a NUL byte, which a TLA+ string cannot hold
Nul == "~"

\* str.split(sep) for a separator of one character: the pieces between the
\* places of the separator, in order
Split(s, sep) ==
    LET at == { i \in 1..Len(s) : CharAt(s, i) = sep }
        \* the place of the k-th separator; 0 before the first, Len + 1 after the last
        place(k) == IF k = 0 THEN 0
                    ELSE IF k > Cardinality(at) THEN Len(s) + 1
                    ELSE CHOOSE i \in at : Cardinality({ j \in at : j < i }) = k - 1
    IN  [k \in 1..(Cardinality(at) + 1) |-> SubSeq(s, place(k - 1) + 1, place(k) - 1)]

RECURSIVE Join(_, _)
\* sep.join(parts)
Join(parts, sep) ==
    IF parts = <<>> THEN ""
    ELSE IF Len(parts) = 1 THEN parts[1]
    ELSE parts[1] \o sep \o Join(Tail(parts), sep)

RECURSIVE SkipSpaces(_, _)
\* the first position from i on that holds no white space (Len + 1 if none)
SkipSpaces(s, i) ==
    IF i > Len(s) \/ ~IsSpace(CharAt(s, i)) THEN i ELSE SkipSpaces(s, i + 1)

RECURSIVE RunEnd(_, _)
\* the position after the longest run of [^\s#] that starts at i
RunEnd(s, i) ==
    IF i > Len(s) \/ IsSpace(CharAt(s, i)) \/ CharAt(s, i) = "#" THEN i
    ELSE RunEnd(s, i + 1)

NoMatch == [matched |-> FALSE, group1 |-> ""]

\* re.match(r'^\s*import\s+([^\s#]+)', line)
MatchImport(line) ==
    LET a == SkipSpaces(line, 1)
        b == a + 6
        c == SkipSpaces(line, b)
        d == RunEnd(line, c)
    IN  IF StartsWithAt(line, a, "import") /\ c > b /\ d > c
        THEN [matched |-> TRUE, group1 |-> SubSeq(line, c, d - 1)]
        ELSE NoMatch

\* re.match(r'^\s*from\s+([^\s#]+)\s+import', line)
MatchFrom(line) ==
    LET a == SkipSpaces(line, 1)
        b == a + 4
        c == SkipSpaces(line, b)
        d == RunEnd(line, c)
        e == SkipSpaces(line, d)
    IN  IF /\ StartsWithAt(line, a, "from") /\ c > b /\ d > c
           /\ e > d /\ StartsWithAt(line, e, "import")
        THEN [matched |-> TRUE, group1 |-> SubSeq(line, c, d - 1)]
        ELSE NoMatch

(***************************************************************************)
(* ast.parse on the statements the model's sources are written in:         *)
(* import and from-import statements, pass and expression statements of    *)
(* one name, comments, and a def header followed by a block of indented    *)
(* simple statements.  Everything else is a syntax error; a NUL byte       *)
(* is rejected before parsing with an error that is no syntax error.       *)
(***************************************************************************)
None == "None"

RECURSIVE TokensFrom(_, _, _)
\* the tokens of a line from position i on; word is the name being read
TokensFrom(s, i, word) ==
    LET flush == IF word = "" THEN <<>> ELSE <<word>>
    IN  IF i > Len(s) \/ CharAt(s, i) = "#" THEN flush
        ELSE IF CharAt(s, i) \in Letters THEN TokensFrom(s, i + 1, word \o CharAt(s, i))
        ELSE IF IsSpace(CharAt(s, i)) THEN flush \o TokensFrom(s, i + 1, "")
        ELSE flush \o <<CharAt(s, i)>> \o TokensFrom(s, i + 1, "")

Tokens(line) == TokensFrom(line, 1, "")

Keywords == {"import", "from", "def", "pass"}

IsName(tok) == Len(tok) > 0 /\ CharAt(tok, 1) \in Letters /\ tok \notin Keywords

RECURSIVE DottedNameEnd(_, _)
\* toks[i] is a name: the position after the dotted name that starts there
DottedNameEnd(toks, i) ==
    IF i + 2 <= Len(toks) /\ toks[i + 1] = "." /\ IsName(toks[i + 2])
    THEN DottedNameEnd(toks, i + 2)
    ELSE i + 1

RECURSIVE DottedNames(_, _)
\* dotted_name ("," dotted_name)* from position i to the end of the line
DottedNames(toks, i) ==
    IF i > Len(toks) \/ ~IsName(toks[i]) THEN [ok |-> FALSE, names |-> <<>>]
    ELSE LET j == DottedNameEnd(toks, i)
             name == Join(SubSeq(toks, i, j - 1), "")
         IN  IF j > Len(toks) THEN [ok |-> TRUE, names |-> <<name>>]
             ELSE IF toks[j] # "," THEN [ok |-> FALSE, names |-> <<>>]
             ELSE LET rest == DottedNames(toks, j + 1)
                  IN  [ok |-> rest.ok, names |-> <<name>> \o rest.names]

RECURSIVE SkipDots(_, _)
SkipDots(toks, i) ==
    IF i <= Len(toks) /\ toks[i] = "." THEN SkipDots(toks, i + 1) ELSE i

StmtError == [kind |-> "error"]

\* the statement one logical line parses to
ParseStatement(toks) ==
    IF toks = <<>> THEN [kind |-> "blank"]
    ELSE IF toks[1] = "import"
    THEN LET r == DottedNames(toks, 2)
         IN  IF r.ok THEN [kind |-> "Import", names |-> r.names] ELSE StmtError
    ELSE IF toks[1] = "from"
    THEN LET a == SkipDots(toks, 2)
             b == IF a <= Len(toks) /\ IsName(toks[a]) THEN DottedNameEnd(toks, a) ELSE a
             imported == DottedNames(toks, b + 1)
         IN  IF b > 2 /\ b <= Len(toks) /\ toks[b] = "import" /\ imported.ok
             THEN [kind |-> "ImportFrom",
                   module |-> IF b > a THEN Join(SubSeq(toks, a, b - 1), "") ELSE None,
                   level |-> a - 2]
             ELSE StmtError
    ELSE IF toks = <<"pass">> THEN [kind |-> "Pass"]
    ELSE IF Len(toks) = 1 /\ IsName(toks[1]) THEN [kind |-> "Expr"]
    ELSE IF Len(toks) = 5 /\ toks[1] = "def" /\ IsName(toks[2])
            /\ SubSeq(toks, 3, 5) = <<"(", ")", ":">>
    THEN [kind |-> "def"]
    ELSE StmtError

FunctionDef(body) == [kind |-> "FunctionDef", body |-> body]

RECURSIVE ParseLines(_, _, _)
\* the module body of lines i.. ; st holds the body so far and the def block
\* that is open, if one is
ParseLines(lines, i, st) ==
    IF i > Len(lines)
    THEN IF st.inDef /\ st.defBody = <<>> THEN [error |-> "SyntaxError", body |-> <<>>]
         ELSE [error |-> "none",
               body |-> IF st.inDef THEN Append(st.body, FunctionDef(st.defBody))
                        ELSE st.body]
    ELSE LET indent == SkipSpaces(lines[i], 1) - 1
             stmt == ParseStatement(Tokens(lines[i]))
             closed == IF st.inDef THEN Append(st.body, FunctionDef(st.defBody))
                       ELSE st.body
         IN  IF stmt.kind = "blank" THEN ParseLines(lines, i + 1, st)
             ELSE IF stmt.kind = "error" THEN [error |-> "SyntaxError", body |-> <<>>]
             ELSE IF indent > 0
             THEN IF /\ st.inDef /\ stmt.kind # "def"
                     /\ (st.defBody = <<>> \/ indent = st.defIndent)
                  THEN ParseLines(lines, i + 1,
                                  [st EXCEPT !.defBody = Append(@, stmt),
                                             !.defIndent = indent])
                  ELSE [error |-> "SyntaxError", body |-> <<>>]
             ELSE IF st.inDef /\ st.defBody = <<>>
             THEN [error |-> "SyntaxError", body |-> <<>>]
             ELSE IF stmt.kind = "def"
             THEN ParseLines(lines, i + 1,
                             [body |-> closed, inDef |-> TRUE, defBody |-> <<>>,
                              defIndent |-> 0])
             ELSE ParseLines(lines, i + 1,
                             [body |-> Append(closed, stmt), inDef |-> FALSE,
                              defBody |-> <<>>, defIndent |-> 0])

Contains(s, c) == \E i \in 1..Len(s) : CharAt(s, i) = c

\* ast.parse(content): the Module node, or the error raised
ast_parse(source) ==
    IF Contains(source, Nul) THEN [error |-> "ValueError", tree |-> <<>>]
    ELSE LET r == ParseLines(Split(source, "\n"), 1,
                             [body |-> <<>>, inDef |-> FALSE, defBody |-> <<>>,
                              defIndent |-> 0])
         IN  [error |-> r.error, tree |-> [kind |-> "Module", body |-> r.body]]

\* ast.iter_child_nodes, the statement nodes of it
ChildNodes(node) == IF "body" \in DOMAIN node THEN node.body ELSE <<>>

RECURSIVE WalkQueue(_)
\* ast.walk: the nodes in the order its deque yields them, breadth first
WalkQueue(todo) ==
    IF todo = <<>> THEN <<>>
    ELSE <<Head(todo)>> \o WalkQueue(Tail(todo) \o ChildNodes(Head(todo)))

RECURSIVE WalkDepthFirst(_)
\* a walk that descends into a node before its later siblings
WalkDepthFirst(todo) ==
    IF todo = <<>> THEN <<>>
    ELSE <<Head(todo)>> \o WalkDepthFirst(ChildNodes(Head(todo)) \o Tail(todo))

ast_walk_depth_first(tree) == WalkDepthFirst(<<tree>>)

ast_walk(tree) == WalkQueue(<<tree>>)

(***************************************************************************)
(* ImportExtractor: the two strategies.                                    *)
(***************************************************************************)
Dependency(from_file, to_module, import_type) ==
    [from_file |-> from_file, to_module |-> to_module, import_type |-> import_type]

RECURSIVE ImportEdges(_, _)
\* for alias in node.names
ImportEdges(names, file_path) ==
    IF names = <<>> THEN <<>>
    ELSE <<Dependency(file_path, Head(names), "import")>>
         \o ImportEdges(Tail(names), file_path)

\* the from-import branch without the test of node.module
NodeEdgesUnguarded(node, file_path) ==
    IF node.kind = "Import" THEN ImportEdges(node.names, file_path)
    ELSE IF node.kind = "ImportFrom"
    THEN <<Dependency(file_path, node.module, "from_import")>>
    ELSE <<>>

\* the body of the loop over ast.walk(tree)
NodeEdges(node, file_path) ==
    IF node.kind = "Import" THEN ImportEdges(node.names, file_path)
    ELSE IF node.kind = "ImportFrom"
    THEN IF node.module # None /\ node.module # ""
         THEN <<Dependency(file_path, node.module, "from_import")>>
         ELSE <<>>
    ELSE <<>>

RECURSIVE WalkEdges(_, _)
WalkEdges(nodes, file_path) ==
    IF nodes = <<>> THEN <<>>
    ELSE NodeEdges(Head(nodes), file_path) \o WalkEdges(Tail(nodes), file_path)

\* for pattern in import_patterns, on one line
LineEdges(line, file_path) ==
    (IF MatchImport(line).matched
     THEN <<Dependency(file_path, MatchImport(line).group1, "import")>> ELSE <<>>)
    \o
    (IF MatchFrom(line).matched
     THEN <<Dependency(file_path, MatchFrom(line).group1, "import")>> ELSE <<>>)

RECURSIVE FallbackEdges(_, _)
\* for line in content.split('\n')
FallbackEdges(lines, file_path) ==
    IF lines = <<>> THEN <<>>
    ELSE LineEdges(Head(lines), file_path) \o FallbackEdges(Tail(lines), file_path)

Extraction(raised, strategy, error, deps) ==
    [raised |-> raised, strategy |-> strategy, error |-> error, deps |-> deps]

\* the handler written as "except SyntaxError:"
extract_python_imports_syntax_only(source, file_path) ==
    LET parsed == ast_parse(source)
    IN  IF parsed.error = "none"
        THEN Extraction(FALSE, "ast", "none", WalkEdges(ast_walk(parsed.tree), file_path))
        ELSE IF parsed.error = "SyntaxError"
        THEN Extraction(FALSE, "regex", parsed.error,
                        FallbackEdges(Split(source, "\n"), file_path))
        ELSE Extraction(TRUE, "ast", parsed.error, <<>>)

\* the handler written as "except: pass"
extract_python_imports_no_fallback(source, file_path) ==
    LET parsed == ast_parse(source)
    IN  IF parsed.error = "none"
        THEN Extraction(FALSE, "ast", "none", WalkEdges(ast_walk(parsed.tree), file_path))
        ELSE Extraction(FALSE, "regex", parsed.error, <<>>)

RECURSIVE EdgesBeforeError(_, _)
\* the edges of the statements that come before the first line in error
EdgesBeforeError(lines, file_path) ==
    IF lines = <<>> \/ ParseStatement(Tokens(Head(lines))).kind = "error" THEN <<>>
    ELSE NodeEdges(ParseStatement(Tokens(Head(lines))), file_path)
         \o EdgesBeforeError(Tail(lines), file_path)

\* a parse that fails only once the statements before the error have given
\* their edges to the list the fallback appends to
extract_python_imports_failing_late(source, file_path) ==
    LET parsed == ast_parse(source)
    IN  IF parsed.error = "none"
        THEN Extraction(FALSE, "ast", "none", WalkEdges(ast_walk(parsed.tree), file_path))
        ELSE Extraction(FALSE, "regex", parsed.error,
                        EdgesBeforeError(Split(source, "\n"), file_path)
                        \o FallbackEdges(Split(source, "\n"), file_path))

\* _extract_python_imports
extract_python_imports(source, file_path) ==
    LET parsed == ast_parse(source)
    IN  IF parsed.error = "none"
        THEN Extraction(FALSE, "ast", "none", WalkEdges(ast_walk(parsed.tree), file_path))
        ELSE Extraction(FALSE, "regex", parsed.error,
                        FallbackEdges(Split(source, "\n"), file_path))

\* the handler of _analyze_file_structure left out: a failure leaves the method
analyze_file_structure_unhandled(rem, fail, old) ==
    LET contents == GetContents(rem, fail, "")
        built == IF contents.raised THEN Raised
                 ELSE build_file_tree(rem, fail, contents.value)
    IN  [file_structure |-> IF built.raised THEN old ELSE built.tree,
         build_raised |-> ~contents.raised /\ built.raised,
         escaped |-> built.raised]

\* the handler of _analyze_file_structure emptying the structure
analyze_file_structure_clearing(rem, fail, old) ==
    LET contents == GetContents(rem, fail, "")
        built == IF contents.raised THEN Raised
                 ELSE build_file_tree(rem, fail, contents.value)
    IN  [file_structure |-> IF built.raised THEN EmptyDict ELSE built.tree,
         build_raised |-> ~contents.raised /\ built.raised,
         escaped |-> FALSE]

\* _analyze_file_structure: the root listing and the build, under one handler
analyze_file_structure(rem, fail, old) ==
    LET contents == GetContents(rem, fail, "")
        built == IF contents.raised THEN Raised
                 ELSE build_file_tree(rem, fail, contents.value)
    IN  [file_structure |-> IF built.raised THEN old ELSE built.tree,
         build_raised |-> ~contents.raised /\ built.raised,
         escaped |-> FALSE]

(***************************************************************************)
(* The phases of analyze_repository.  What a remote call answers (a        *)
(* failure, or a value) is an argument of the phase that makes the call.   *)
(***************************************************************************)
MaxFileSize == 1000000
CommitCap == 100
FilesPerCommitCap == 10
ContributorCap == 20
PrimaryFilesCap == 5

\* seq[:n]
\* a slice that keeps everything
TakeAll(seq, n) == seq

Take(seq, n) == SubSeq(seq, 1, IF Len(seq) < n THEN Len(seq) ELSE n)

Range(seq) == { seq[i] : i \in 1..Len(seq) }

\* the sub-strings of s that follow an occurrence of sub
RestsAfter(s, sub) ==
    { SubSeq(s, i + Len(sub), Len(s)) : i \in { j \in 1..Len(s) : StartsWithAt(s, j, sub) } }

NoSlash(w) == Len(w) > 0 /\ ~Contains(w, "/")

StripDotGit(w) ==
    IF Len(w) > 4 /\ EndsWith(w, ".git") THEN SubSeq(w, 1, Len(w) - 4) ELSE w

NoRepoInfo == [found |-> FALSE, owner |-> "", name |-> ""]

RepoInfo(owner, name) == [found |-> TRUE, owner |-> owner, name |-> name]

\* _parse_repo_url: the three patterns, the first that matches
parse_repo_url(url) ==
    LET rests == RestsAfter(url, "github.com/")
        \* github\.com/([^/]+)/([^/]+?)(?:\.git)?/?$
        full == { r \in rests :
                    LET parts == Split(r, "/")
                    IN  /\ Len(parts) \in {2, 3}
                        /\ NoSlash(parts[1]) /\ NoSlash(parts[2])
                        /\ Len(parts) = 3 => parts[3] = "" }
        \* github\.com/([^/]+)/([^/]+)/tree/
        tree == { r \in rests :
                    LET parts == Split(r, "/")
                    IN  /\ Len(parts) >= 4
                        /\ NoSlash(parts[1]) /\ NoSlash(parts[2])
                        /\ parts[3] = "tree" }
        short == Split(url, "/")
    IN  IF full # {}
        THEN LET r == CHOOSE x \in full : \A y \in full : Len(x) >= Len(y)
             IN  RepoInfo(Split(r, "/")[1], StripDotGit(Split(r, "/")[2]))
        ELSE IF tree # {}
        THEN LET r == CHOOSE x \in tree : \A y \in tree : Len(x) >= Len(y)
             IN  RepoInfo(Split(r, "/")[1], Split(r, "/")[2])
        ELSE IF Len(short) = 2 /\ NoSlash(short[1]) /\ NoSlash(short[2])
        THEN RepoInfo(short[1], short[2])
        ELSE NoRepoInfo

\* what repo.get_contents(file_path) and the decoding of it can give
FetchFailed == [raised |-> TRUE, size |-> 0, decodable |-> FALSE, text |-> ""]

Fetched(size, text) == [raised |-> FALSE, size |-> size, decodable |-> TRUE, text |-> text]

Undecodable(size) == [raised |-> FALSE, size |-> size, decodable |-> FALSE, text |-> ""]

\* self.dependencies.extend(deps), or the handler of the loop body when the
\* extraction raised
Extend(acc, r) ==
    IF r.raised THEN [acc EXCEPT !.caught = TRUE]
    ELSE [acc EXCEPT !.deps = @ \o r.deps]

\* the handler of the loop body dropping the edges gathered so far
DependencyStepDropping(acc, file_path, file_content) ==
    IF file_content.raised \/ ~file_content.decodable
    THEN [deps |-> <<>>, caught |-> TRUE]
    ELSE IF file_content.size > MaxFileSize THEN acc
    ELSE Extend(acc, extract_python_imports(file_content.text, file_path))

\* the body of the for loop of _analyze_dependencies on one file, with its
\* handler
DependencyStep(acc, file_path, file_content) ==
    IF file_content.raised THEN [acc EXCEPT !.caught = TRUE]
    ELSE IF file_content.size > MaxFileSize THEN acc
    ELSE IF ~file_content.decodable THEN [acc EXCEPT !.caught = TRUE]
    ELSE Extend(acc, extract_python_imports(file_content.text, file_path))

RECURSIVE DependencyLoop(_, _, _, _)
\* the for loop of _analyze_dependencies from file i on: the edges and whether
\* the handler of the loop body caught a failure
DependencyLoop(files, i, fetch, acc) ==
    IF i > Len(files) THEN acc
    ELSE DependencyLoop(files, i + 1, fetch,
                        DependencyStep(acc, files[i], fetch[files[i]]))

\* _analyze_dependencies: fail the listing calls that fail during the search,
\* fetch what each file fetch gives
analyze_dependencies(rem, fail, fetch) ==
    LET files == get_files_by_extension(rem, fail, ".py")
        done == DependencyLoop(files, 1, fetch, [deps |-> <<>>, caught |-> FALSE])
    IN  [dependencies |-> done.deps, python_files |-> files,
         caught |-> done.caught, escaped |-> FALSE]

\* d[k] += 1 on a defaultdict(int)
Increment(d, k) == Put(d, k, IF k \in DOMAIN d THEN d[k] + 1 ELSE 1)

\* d[k].append(v) on a defaultdict(list)
AppendTo(d, k, v) == Put(d, k, IF k \in DOMAIN d THEN Append(d[k], v) ELSE <<v>>)

\* s.add(x) on a set, kept enumerated
Add(s, x) == { y : y \in s \cup {x} }

Login(commit) == IF commit.author = None THEN "Unknown" ELSE commit.author

RECURSIVE FilesLoop(_, _, _, _)
\* for file in commit.files[:10]
FilesLoop(files, i, author, acc) ==
    IF i > Len(files) THEN acc
    ELSE FilesLoop(files, i + 1, author,
                   [acc EXCEPT !.file_changes = Increment(@, files[i]),
                               !.contributor_data = AppendTo(@, author, files[i])])

\* the body of the for loop of _analyze_commit_history on one commit, with
\* its handler
CommitStep(acc, commit) ==
    LET counted == [acc EXCEPT !.authors = Add(@, Login(commit)),
                               !.commit_frequency = Increment(@, commit.date)]
    IN  IF commit.files_raise THEN [counted EXCEPT !.caught = TRUE]
        ELSE FilesLoop(Take(commit.files, FilesPerCommitCap), 1, Login(commit), counted)

\* the one element of a singleton
Only(S) == CHOOSE x \in S : TRUE

RECURSIVE CommitSpan(_, _, _, _)
\* the for loop over the commits lo..hi, in their order: the first half, then
\* the second half on the value the first left (halving, and holding that
\* value in a bound name, keep the evaluation shallow on long lists)
CommitSpan(commits, lo, hi, acc) ==
    IF lo > hi THEN acc
    ELSE IF lo = hi THEN CommitStep(acc, commits[lo])
    ELSE Only({ CommitSpan(commits, ((lo + hi) \div 2) + 1, hi, first) :
                first \in {CommitSpan(commits, lo, (lo + hi) \div 2, acc)} })

\* for commit in commits[:100], with the handler of the loop body
CommitLoop(commits, i, acc) == CommitSpan(commits, i, Len(commits), acc)

EmptyCommitData ==
    [total_commits |-> 0, file_changes |-> EmptyDict, commit_frequency |-> EmptyDict,
     authors |-> {}]

\* the outer handler of _analyze_commit_history raising again
analyze_commit_history_reraising(got, owned) ==
    IF got.raised
    THEN [commit_data |-> EmptyCommitData, contributor_data |-> owned,
          caught |-> TRUE, escaped |-> TRUE]
    ELSE LET done == CommitLoop(Take(got.value, CommitCap), 1,
                                [file_changes |-> EmptyDict, commit_frequency |-> EmptyDict,
                                 authors |-> {}, contributor_data |-> owned,
                                 caught |-> FALSE])
         IN  [commit_data |-> [total_commits |-> Len(got.value),
                               file_changes |-> done.file_changes,
                               commit_frequency |-> done.commit_frequency,
                               authors |-> done.authors],
              contributor_data |-> done.contributor_data,
              caught |-> done.caught, escaped |-> FALSE]

\* the scan clearing self.contributor_data before it appends
analyze_commit_history_clearing(got, owned) ==
    IF got.raised
    THEN [commit_data |-> EmptyCommitData, contributor_data |-> EmptyDict,
          caught |-> TRUE, escaped |-> FALSE]
    ELSE LET done == CommitLoop(Take(got.value, CommitCap), 1,
                                [file_changes |-> EmptyDict, commit_frequency |-> EmptyDict,
                                 authors |-> {}, contributor_data |-> EmptyDict,
                                 caught |-> FALSE])
         IN  [commit_data |-> [total_commits |-> Len(got.value),
                               file_changes |-> done.file_changes,
                               commit_frequency |-> done.commit_frequency,
                               authors |-> done.authors],
              contributor_data |-> done.contributor_data,
              caught |-> done.caught, escaped |-> FALSE]

\* _analyze_commit_history: got is what repo.get_commits gave, owned is
\* self.contributor_data
analyze_commit_history(got, owned) ==
    IF got.raised
    THEN [commit_data |-> EmptyCommitData, contributor_data |-> owned,
          caught |-> TRUE, escaped |-> FALSE]
    ELSE LET done == CommitLoop(Take(got.value, CommitCap), 1,
                                [file_changes |-> EmptyDict, commit_frequency |-> EmptyDict,
                                 authors |-> {}, contributor_data |-> owned,
                                 caught |-> FALSE])
         IN  [commit_data |-> [total_commits |-> Len(got.value),
                               file_changes |-> done.file_changes,
                               commit_frequency |-> done.commit_frequency,
                               authors |-> done.authors],
              contributor_data |-> done.contributor_data,
              caught |-> done.caught, escaped |-> FALSE]

Count(seq, x) == Cardinality({ i \in 1..Len(seq) : seq[i] = x })

\* the place of the first occurrence of x in seq
FirstAt(seq, x) == CHOOSE i \in 1..Len(seq) : seq[i] = x /\ \A j \in 1..(i - 1) : seq[j] # x

RECURSIVE MostCommonOf(_, _, _)
\* Counter(seq).most_common(n): by count, ties in the order of first occurrence
MostCommonOf(seq, left, n) ==
    IF n = 0 \/ left = {} THEN <<>>
    ELSE LET top == CHOOSE x \in left :
                       \A y \in left :
                           \/ Count(seq, x) > Count(seq, y)
                           \/ Count(seq, x) = Count(seq, y) /\ FirstAt(seq, x) <= FirstAt(seq, y)
         IN  <<<<top, Count(seq, top)>>>> \o MostCommonOf(seq, left \ {top}, n - 1)

most_common(seq, n) == MostCommonOf(seq, Range(seq), n)

RECURSIVE ContributorLoop(_, _, _, _)
\* for contributor in contributors[:20]
ContributorLoop(contributors, i, owned, stats) ==
    IF i > Len(contributors) THEN stats
    ELSE LET c == contributors[i]
             files == IF c.login \in DOMAIN owned THEN owned[c.login] ELSE <<>>
         IN  ContributorLoop(contributors, i + 1, owned,
                 Put(stats, c.login,
                     [contributions |-> c.contributions,
                      files_owned |-> Cardinality(Range(files)),
                      primary_files |-> most_common(files, PrimaryFilesCap)]))

\* the handler of _analyze_contributors raising again
analyze_contributors_reraising(got, owned) ==
    IF got.raised
    THEN [contributor_stats |-> EmptyDict, caught |-> TRUE, escaped |-> TRUE]
    ELSE [contributor_stats |->
              ContributorLoop(Take(got.value, ContributorCap), 1, owned, EmptyDict),
          caught |-> FALSE, escaped |-> FALSE]

\* _analyze_contributors: got is what repo.get_contributors gave
analyze_contributors(got, owned) ==
    IF got.raised
    THEN [contributor_stats |-> EmptyDict, caught |-> TRUE, escaped |-> FALSE]
    ELSE [contributor_stats |->
              ContributorLoop(Take(got.value, ContributorCap), 1, owned, EmptyDict),
          caught |-> FALSE, escaped |-> FALSE]

\* dict.get(key, default)
Get(d, k, default) == IF k \in DOMAIN d THEN d[k] ELSE default

RECURSIVE count_languages(_, _)
RECURSIVE LanguagesOver(_, _, _)

\* the for loop of count_languages over the keys not yet visited; tally
\* is the defaultdict(int) of _create_language_distribution
LanguagesOver(structure, keys, tally) ==
    IF keys = {} THEN tally
    ELSE LET name == CHOOSE k \in keys : TRUE
             data == structure[name]
         IN  LanguagesOver(structure, keys \ {name},
                 IF data.type = "file"
                 THEN Increment(tally, Get(data, "language", "Unknown"))
                 ELSE IF data.type = "dir" /\ "children" \in DOMAIN data
                      THEN count_languages(data.children, tally)
                      ELSE tally)

count_languages(structure, tally) ==
    LanguagesOver(structure, DOMAIN structure, tally)

\* the summary counting the commits inspected, not the commits listed
generate_report_of_inspected(structure, deps, commits) ==
    [total_files |-> count_files(structure),
     total_dependencies |-> Len(deps),
     total_commits_analyzed |->
         IF Get(commits, "total_commits", 0) > CommitCap THEN CommitCap
         ELSE Get(commits, "total_commits", 0),
     active_contributors |-> Cardinality(Get(commits, "authors", {}))]

\* the analysis_summary of _generate_report
generate_report(structure, deps, commits) ==
    [total_files |-> count_files(structure),
     total_dependencies |-> Len(deps),
     total_commits_analyzed |-> Get(commits, "total_commits", 0),
     active_contributors |-> Cardinality(Get(commits, "authors", {}))]

(***************************************************************************)
(* The tree walk on its own: a repository and the failing listing calls    *)
(* are drawn, then the file structure is analysed and the Python files     *)
(* are searched, as phases 1 and 2 of a run do, and the languages of the   *)
(* structure are tallied, as the language chart does.                      *)
(***************************************************************************)
NoExtraction == [raised |-> FALSE, strategy |-> "none", error |-> "none", deps |-> <<>>]

NoReport == [total_files |-> -1, total_dependencies |-> -1,
             total_commits_analyzed |-> -1, active_contributors |-> -1]

\* no call of analyze_repository has begun: the fields as __init__ leaves them
NoCallYet ==
    [call |-> 0, file_structure |-> EmptyDict, dependencies |-> <<>>,
     contributor_data |-> EmptyDict]

\* GitDiagramPlus.__init__, before any run
FreshRun ==
    /\ repo_data = EmptyDict
    /\ commit_data = EmptyDict
    /\ contributor_data = EmptyDict
    /\ contributor_stats = None   \* no attribute until _analyze_contributors
    /\ report = NoReport
    /\ phases = <<>>
    /\ caught = {}
    /\ calls = <<>>
    /\ repo_url = None
    /\ fetched = EmptyDict
    /\ got_commits = None
    /\ languages = EmptyDict
    /\ before = NoCallYet
    /\ exit_code = -1

InitTree ==
    /\ pc = "start"
    /\ remote \in Repositories
    /\ failing \in SUBSET (DOMAIN remote)
    /\ file_structure = EmptyDict
    /\ build_raised = FALSE
    /\ escaped = FALSE
    /\ python_files = <<>>
    /\ content = ""
    /\ extracted = NoExtraction
    /\ dependencies = <<>>
    /\ FreshRun

AnalyzeFileStructure ==
    /\ pc = "start"
    /\ LET r == analyze_file_structure(remote, failing, file_structure)
       IN  /\ file_structure' = r.file_structure
           /\ build_raised' = r.build_raised
           /\ escaped' = r.escaped
    /\ pc' = "structured"
    /\ UNCHANGED <<remote, failing, python_files, content, extracted, dependencies,
                   runVars>>

GetFilesByExtension ==
    /\ pc = "structured"
    /\ python_files' = get_files_by_extension(remote, failing, ".py")
    /\ pc' = "searched"
    /\ UNCHANGED <<remote, failing, file_structure, build_raised, escaped,
                   content, extracted, dependencies, runVars>>

\* the tally of _create_language_distribution over the structure built
CreateLanguageDistribution ==
    /\ pc = "searched"
    /\ languages' = count_languages(file_structure, EmptyDict)
    /\ pc' = "tallied"
    /\ UNCHANGED <<remote, failing, file_structure, build_raised, escaped, python_files,
                   content, extracted, dependencies, repo_data, commit_data,
                   contributor_data, contributor_stats, report, phases, caught, calls,
                   repo_url, fetched, got_commits, before, exit_code>>

NextTree == AnalyzeFileStructure \/ GetFilesByExtension \/ CreateLanguageDistribution

SpecTree == InitTree /\ [][NextTree]_vars

(***************************************************************************)
(* The extractor on its own: a source text is drawn and extracted.         *)
(***************************************************************************)
SourceLines ==
    { "import os", "import os, sys", "from collections import defaultdict",
      "from . import x", "from .pkg import x", "def f():", "    import sys",
      "importos", "x = (", Nul }

\* the texts of at most MaxLines lines; the text of no line is the empty text
SourceTexts == { Join(ls, "\n") : ls \in SeqsUpTo(SourceLines, MaxLines) }

SourcePath == "a.py"

InitExtract ==
    /\ pc = "fetched"
    /\ content \in SourceTexts
    /\ extracted = NoExtraction
    /\ remote = [p \in {""} |-> <<>>]
    /\ failing = {}
    /\ file_structure = EmptyDict
    /\ build_raised = FALSE
    /\ escaped = FALSE
    /\ python_files = <<>>
    /\ dependencies = <<>>
    /\ FreshRun

ExtractPythonImports ==
    /\ pc = "fetched"
    /\ extracted' = extract_python_imports(content, SourcePath)
    /\ pc' = "extracted"
    /\ UNCHANGED <<remote, failing, file_structure, build_raised, escaped,
                   python_files, content, dependencies, runVars>>

NextExtract == ExtractPythonImports

SpecExtract == InitExtract /\ [][NextExtract]_vars

(***************************************************************************)
(* A run of analyze_repository under main, on a fresh instance.  Each      *)
(* phase draws what its remote calls answer.                               *)
(***************************************************************************)
RepoUrls == {"owner/repo", "https://github.com/owner/repo.git", "owner"}

\* the repositories a run analyses: a file beside a nested directory, a
\* single file, a root listing with a malformed entry
RunRepositories ==
    { r \in Repositories :
        /\ r[""] \in { <<FileEntry("", "a.py", 10), DirEntry("", "d")>>,
                       <<FileEntry("", "A.PY", 20)>>,
                       <<MalformedEntry("", "m")>> }
        /\ "d" \in DOMAIN r => r["d"] = <<DirEntry("d", "e")>>
        /\ "d/e" \in DOMAIN r => r["d/e"] = <<FileEntry("d/e", "x.py", 1)>> }

FetchOutcomes ==
    { FetchFailed, Undecodable(10), Fetched(MaxFileSize + 1, "import os"),
      Fetched(MaxFileSize, "import sys"), Fetched(10, "import os\nfrom . import x") }

Got(value) == [raised |-> FALSE, value |-> value]

CallFailed == [raised |-> TRUE, value |-> <<>>]

CommitCandidates ==
    { [author |-> "alice", date |-> "2024-01-01", files |-> <<"a.py">>,
       files_raise |-> FALSE],
      [author |-> None, date |-> "2024-01-02", files |-> <<"a.py", "b.py">>,
       files_raise |-> FALSE],
      [author |-> "bob", date |-> "2024-01-01", files |-> <<>>, files_raise |-> TRUE] }

CommitOutcomes ==
    {CallFailed} \cup { Got(l) : l \in SeqsUpTo(CommitCandidates, MaxCommits) }

ContributorOutcomes ==
    { CallFailed, Got(<<>>),
      Got(<<[login |-> "alice", contributions |-> 5], [login |-> "bob", contributions |-> 1]>>) }

\* one call out of the program: a remote call or a write under the output
\* directory
Call(phase, op, arg, ok) == [phase |-> phase, op |-> op, arg |-> arg, ok |-> ok]

RECURSIVE ListingCalls(_, _, _, _, _, _)
\* the repo.get_contents calls a walk of the listings makes on contents from
\* entry i on; the tree build stops a listing at an entry it cannot read
ListingCalls(phase, strict, rem, fail, contents, i) ==
    IF i > Len(contents) THEN <<>>
    ELSE LET entry == contents[i]
             sub == GetContents(rem, fail, entry.path)
         IN  IF entry.type = "dir"
             THEN <<Call(phase, "get_contents", entry.path, ~sub.raised)>>
                  \o ListingCalls(phase, strict, rem, fail, sub.value, 1)
                  \o ListingCalls(phase, strict, rem, fail, contents, i + 1)
             ELSE IF strict /\ ~HasAttr(entry, "size") THEN <<>>
             ELSE ListingCalls(phase, strict, rem, fail, contents, i + 1)

\* the calls of a walk from the root listing
WalkCalls(phase, strict, rem, fail) ==
    <<Call(phase, "get_contents", "", ~GetContents(rem, fail, "").raised)>>
    \o ListingCalls(phase, strict, rem, fail, GetContents(rem, fail, "").value, 1)

\* repo.get_contents(file_path) for each file of the list, in order
FetchCalls(files, fetch) ==
    [i \in 1..Len(files) |->
        Call("dependencies", "get_contents", files[i], ~fetch[files[i]].raised)]

\* the output directory made before the URL is looked at
StartCallsDirectoryFirst(info, made, found) ==
    IF ~made THEN <<Call("start", "makedirs", "output", FALSE)>>
    ELSE IF ~info.found THEN <<Call("start", "makedirs", "output", TRUE)>>
    ELSE <<Call("start", "makedirs", "output", TRUE),
           Call("start", "get_repo", info.owner \o "/" \o info.name, found)>>

\* the calls of analyze_repository before its first phase
StartCalls(info, made, found) ==
    IF ~info.found THEN <<>>
    ELSE IF ~made THEN <<Call("start", "makedirs", "output", FALSE)>>
    ELSE <<Call("start", "makedirs", "output", TRUE),
           Call("start", "get_repo", info.owner \o "/" \o info.name, found)>>

PhaseOrder ==
    << "structure", "dependencies", "commits", "contributors", "documentation",
       "visualizations", "report" >>

\* the commit scan started before the dependency scan
AfterOutOfOrder(phase, esc) ==
    IF esc THEN "raised"
    ELSE CASE phase = "start" -> "structure"
           [] phase = "structure" -> "commits"
           [] phase = "commits" -> "dependencies"
           [] phase = "dependencies" -> "contributors"
           [] phase = "contributors" -> "documentation"
           [] phase = "documentation" -> "visualizations"
           [] phase = "visualizations" -> "report"
           [] OTHER -> "returned"

\* where the run goes after a phase: into the handler of analyze_repository,
\* which raises again, or on
After(phase, esc) ==
    IF esc THEN "raised"
    ELSE CASE phase = "start" -> "structure"
           [] phase = "structure" -> "dependencies"
           [] phase = "dependencies" -> "commits"
           [] phase = "commits" -> "contributors"
           [] phase = "contributors" -> "documentation"
           [] phase = "documentation" -> "visualizations"
           [] phase = "visualizations" -> "report"
           [] OTHER -> "returned"

Init ==
    /\ pc = "idle"
    /\ remote \in RunRepositories
    /\ failing = {}
    /\ file_structure = EmptyDict
    /\ build_raised = FALSE
    /\ escaped = FALSE
    /\ python_files = <<>>
    /\ content = ""
    /\ extracted = NoExtraction
    /\ dependencies = <<>>
    /\ FreshRun

\* analyze_repository up to the first phase: the URL, the output directory,
\* the repository object
Start ==
    /\ pc = "idle"
    /\ \E url \in RepoUrls, made \in BOOLEAN, found \in BOOLEAN :
         LET info == parse_repo_url(url)
             ok == info.found /\ made /\ found
         IN  /\ repo_data' = IF ok THEN [name |-> info.name, owner |-> info.owner]
                             ELSE repo_data
             /\ escaped' = ~ok
             /\ calls' = StartCalls(info, made, found)
             /\ repo_url' = url
             /\ pc' = After("start", ~ok)
    /\ phases' = <<"start">>
    /\ UNCHANGED <<remote, failing, file_structure, build_raised, python_files, content,
                   extracted, dependencies, commit_data, contributor_data,
                   contributor_stats, report, caught, fetched,
                   got_commits, languages, before, exit_code>>

RunFileStructure ==
    /\ pc = "structure"
    /\ \E fail \in SUBSET (DOMAIN remote) :
         LET r == analyze_file_structure(remote, fail, file_structure)
         IN  /\ failing' = fail
             /\ file_structure' = r.file_structure
             /\ build_raised' = r.build_raised
             /\ escaped' = r.escaped
             /\ caught' = IF fail # {} \/ r.build_raised THEN caught \cup {"structure"}
                          ELSE caught
             /\ calls' = calls \o WalkCalls("structure", TRUE, remote, fail)
             /\ pc' = After("structure", r.escaped)
    /\ phases' = Append(phases, "structure")
    /\ UNCHANGED <<remote, python_files, content, extracted, dependencies, repo_data,
                   commit_data, contributor_data, contributor_stats, report, repo_url, fetched,
                   got_commits, languages, before, exit_code>>

\* what _analyze_dependencies leaves in the instance
DependenciesAnalyzed(r) ==
    /\ dependencies' = r.dependencies
    /\ python_files' = r.python_files
    /\ escaped' = r.escaped
    /\ caught' = IF r.caught THEN caught \cup {"dependencies"} ELSE caught
    /\ pc' = After("dependencies", r.escaped)

RunDependencies ==
    /\ pc = "dependencies"
    /\ \E fail \in SUBSET (DOMAIN remote) :
         \E fetch \in [Range(get_files_by_extension(remote, fail, ".py")) -> FetchOutcomes] :
             /\ DependenciesAnalyzed(analyze_dependencies(remote, fail, fetch))
             /\ fetched' = fetch
             /\ calls' = calls \o WalkCalls("dependencies", FALSE, remote, fail)
                               \o FetchCalls(get_files_by_extension(remote, fail, ".py"),
                                             fetch)
    /\ phases' = Append(phases, "dependencies")
    /\ UNCHANGED <<remote, failing, file_structure, build_raised, content, extracted,
                   repo_data, commit_data, contributor_data, contributor_stats, report,
                   repo_url, got_commits, languages, before, exit_code>>

RunCommitHistory ==
    /\ pc = "commits"
    /\ \E got \in CommitOutcomes :
         LET r == analyze_commit_history(got, contributor_data)
         IN  /\ commit_data' = r.commit_data
             /\ contributor_data' = r.contributor_data
             /\ got_commits' = got
             /\ escaped' = r.escaped
             /\ caught' = IF r.caught THEN caught \cup {"commits"} ELSE caught
             /\ calls' = Append(calls, Call("commits", "get_commits", "", ~got.raised))
             /\ pc' = After("commits", r.escaped)
    /\ phases' = Append(phases, "commits")
    /\ UNCHANGED <<remote, failing, file_structure, build_raised, python_files, content,
                   extracted, dependencies, repo_data, contributor_stats, report,
                   repo_url, fetched, languages, before, exit_code>>

RunContributors ==
    /\ pc = "contributors"
    /\ \E got \in ContributorOutcomes :
         LET r == analyze_contributors(got, contributor_data)
         IN  /\ contributor_stats' = r.contributor_stats
             /\ escaped' = r.escaped
             /\ caught' = IF r.caught THEN caught \cup {"contributors"} ELSE caught
             /\ calls' = Append(calls,
                                Call("contributors", "get_contributors", "", ~got.raised))
             /\ pc' = After("contributors", r.escaped)
    /\ phases' = Append(phases, "contributors")
    /\ UNCHANGED <<remote, failing, file_structure, build_raised, python_files, content,
                   extracted, dependencies, repo_data, commit_data, contributor_data,
                   report, repo_url, fetched,
                   got_commits, languages, before, exit_code>>

\* _generate_documentation and _create_visualizations write files under the
\* output directory and have no handler of their own
RunDocumentation ==
    /\ pc = "documentation"
    /\ \E written \in BOOLEAN :
         /\ escaped' = ~written
         /\ calls' = Append(calls, Call("documentation", "write", "AUTO_README.md", written))
         /\ pc' = After("documentation", ~written)
    /\ phases' = Append(phases, "documentation")
    /\ UNCHANGED <<remote, failing, file_structure, build_raised, python_files, content,
                   extracted, dependencies, repo_data, commit_data, contributor_data,
                   contributor_stats, report, caught, repo_url, fetched,
                   got_commits, languages, before, exit_code>>

RunVisualizations ==
    /\ pc = "visualizations"
    /\ \E written \in BOOLEAN :
         /\ escaped' = ~written
         /\ calls' = Append(calls, Call("visualizations", "write", "file_structure.html", written))
         /\ languages' = IF written THEN count_languages(file_structure, EmptyDict)
                          ELSE languages
         /\ pc' = After("visualizations", ~written)
    /\ phases' = Append(phases, "visualizations")
    /\ UNCHANGED <<remote, failing, file_structure, build_raised, python_files, content,
                   extracted, dependencies, repo_data, commit_data, contributor_data,
                   contributor_stats, report, caught, repo_url, fetched,
                   got_commits, before, exit_code>>

RunReport ==
    /\ pc = "report"
    /\ \E written \in BOOLEAN :
         /\ escaped' = ~written
         /\ calls' = Append(calls, Call("report", "write", "analysis_report.json", written))
         /\ pc' = After("report", ~written)
         /\ report' = IF written
                      THEN generate_report(file_structure, dependencies, commit_data)
                      ELSE report
    /\ phases' = Append(phases, "report")
    /\ UNCHANGED <<remote, failing, file_structure, build_raised, python_files, content,
                   extracted, dependencies, repo_data, commit_data, contributor_data,
                   contributor_stats, caught, repo_url, fetched,
                   got_commits, languages, before, exit_code>>

\* main: 0 when analyze_repository returned, 1 when it raised
MainReturn ==
    /\ pc \in {"returned", "raised"}
    /\ exit_code' = IF pc = "returned" THEN 0 ELSE 1
    /\ pc' = "exited"
    /\ UNCHANGED <<remote, failing, file_structure, build_raised, escaped, python_files,
                   content, extracted, dependencies, repo_data, commit_data,
                   contributor_data, contributor_stats, report, phases, caught, calls,
                   repo_url, fetched, got_commits, languages, before>>

Next ==
    \/ Start
    \/ RunFileStructure
    \/ RunDependencies
    \/ RunCommitHistory
    \/ RunContributors
    \/ RunDocumentation
    \/ RunVisualizations
    \/ RunReport
    \/ MainReturn

Spec == Init /\ [][Next]_vars

(***************************************************************************)
(* The commit scan on its own, on commit lists around and beyond the caps  *)
(* of the scan, and the report made of what it leaves.                     *)
(***************************************************************************)
CommitCounts ==
    {0, 1, CommitCap - 1} \cup { CommitCap + n : n \in 0..MaxCommitsOverCap }

FileCounts ==
    {0, 1, FilesPerCommitCap - 1} \cup { FilesPerCommitCap + n : n \in 0..MaxFilesOverCap }

\* the files of a commit: the files past the cap carry a name of their own
ManyFiles(k) ==
    [j \in 1..k |-> IF j > FilesPerCommitCap THEN "late.py"
                    ELSE IF j % 2 = 0 THEN "a.py" ELSE "b.py"]

\* n commits of k files each: the commits past the cap carry an author and a
\* date of their own
ManyCommits(n, k, who) ==
    [i \in 1..n |->
        [author |-> IF i > CommitCap THEN "late" ELSE who,
         date |-> IF i > CommitCap THEN "2024-02-02" ELSE "2024-01-01",
         files |-> ManyFiles(k), files_raise |-> FALSE]]

LongCommitOutcomes ==
    {CallFailed}
    \cup { Got(ManyCommits(n, k, who)) :
             n \in CommitCounts, k \in FileCounts, who \in {"alice", "bob", None} }

InitCommits ==
    /\ pc = "listed"
    /\ remote \in {[p \in {""} |-> <<>>]}
    /\ failing = {}
    /\ file_structure = EmptyDict
    /\ build_raised = FALSE
    /\ escaped = FALSE
    /\ python_files = <<>>
    /\ content = ""
    /\ extracted = NoExtraction
    /\ dependencies = <<>>
    /\ repo_data = EmptyDict
    /\ commit_data = EmptyDict
    /\ contributor_data = EmptyDict
    /\ contributor_stats = None
    /\ report = NoReport
    /\ phases = <<>>
    /\ caught = {}
    /\ calls = <<>>
    /\ repo_url = None
    /\ fetched = EmptyDict
    /\ got_commits \in LongCommitOutcomes
    /\ languages = EmptyDict
    /\ before = NoCallYet
    /\ exit_code = -1

\* what _analyze_commit_history leaves in the instance
CommitsAnalyzed(r) ==
    /\ commit_data' = r.commit_data
    /\ contributor_data' = r.contributor_data
    /\ escaped' = r.escaped
    /\ caught' = IF r.caught THEN {"commits"} ELSE {}

AnalyzeCommitHistory ==
    /\ pc = "listed"
    /\ CommitsAnalyzed(analyze_commit_history(got_commits, contributor_data))
    /\ pc' = "scanned"
    /\ UNCHANGED <<remote, failing, file_structure, build_raised, python_files, content,
                   extracted, dependencies, repo_data, contributor_stats, report,
                   phases, calls, repo_url, fetched, got_commits, languages, before, exit_code>>

\* _generate_report on what the scan left
GenerateReport ==
    /\ pc = "scanned"
    /\ report' = generate_report(file_structure, dependencies, commit_data)
    /\ pc' = "reported"
    /\ UNCHANGED <<remote, failing, file_structure, build_raised, escaped, python_files,
                   content, extracted, dependencies, repo_data, commit_data,
                   contributor_data, contributor_stats, phases, caught, calls, repo_url,
                   fetched, got_commits, languages, before, exit_code>>

NextCommits == AnalyzeCommitHistory \/ GenerateReport

SpecCommits == InitCommits /\ [][NextCommits]_vars

(***************************************************************************)
(* One instance, several calls of analyze_repository: each call is one     *)
(* step, and the fields of the instance pass from a call to the next.      *)
(***************************************************************************)
MaxCalls == 2

\* the listing calls that fail in a call: none, or the root listing
InstanceFailures == {{}, {""}}

InstanceCommitOutcomes ==
    { CallFailed, Got(<<>>),
      Got(<<[author |-> "alice", date |-> "2024-01-01", files |-> <<"a.py">>,
             files_raise |-> FALSE]>>),
      Got(<<[author |-> "alice", date |-> "2024-01-02", files |-> <<"b.py">>,
             files_raise |-> FALSE]>>) }

InstanceContributorOutcomes == ContributorOutcomes \ {Got(<<>>)}

\* every source file is fetched and holds one import
InstanceFetch(files) == [f \in Range(files) |-> Fetched(10, "import os")]

InitInstance ==
    /\ pc = "idle"
    /\ remote \in {[p \in {""} |-> <<>>]}
    /\ failing = {}
    /\ file_structure = EmptyDict
    /\ build_raised = FALSE
    /\ escaped = FALSE
    /\ python_files = <<>>
    /\ content = ""
    /\ extracted = NoExtraction
    /\ dependencies = <<>>
    /\ FreshRun

\* the fields of the instance as the call begins
CallBegun ==
    before' = [call |-> before.call + 1, file_structure |-> file_structure,
               dependencies |-> dependencies, contributor_data |-> contributor_data]

\* the calls out of a call that runs every phase
InstanceCalls(rem, fail, files, got, contributors) ==
    StartCalls(parse_repo_url("owner/repo"), TRUE, TRUE)
    \o WalkCalls("structure", TRUE, rem, fail)
    \o WalkCalls("dependencies", FALSE, rem, fail)
    \o FetchCalls(files, InstanceFetch(files))
    \o <<Call("commits", "get_commits", "", ~got.raised),
          Call("contributors", "get_contributors", "", ~contributors.raised),
          Call("documentation", "write", "AUTO_README.md", TRUE),
          Call("visualizations", "write", "file_structure.html", TRUE),
          Call("report", "write", "analysis_report.json", TRUE)>>

\* what phases 1 to 4 and the report leave in the instance: structure,
\* scanned and history are what phases 1, 2 and 3 gave
InstanceAnalyzed(structure, scanned, history, contributors) ==
    /\ file_structure' = structure.file_structure
    /\ build_raised' = structure.build_raised
    /\ dependencies' = scanned.dependencies
    /\ python_files' = scanned.python_files
    /\ commit_data' = history.commit_data
    /\ contributor_data' = history.contributor_data
    /\ contributor_stats' =
          analyze_contributors(contributors, history.contributor_data).contributor_stats
    /\ languages' = count_languages(structure.file_structure, EmptyDict)
    /\ report' = generate_report(structure.file_structure, scanned.dependencies,
                                 history.commit_data)
    /\ caught' = (IF history.caught THEN {"commits"} ELSE {})
                  \cup (IF contributors.raised THEN {"contributors"} ELSE {})

\* analyze_repository on a repository that is found, no write failing
AnalyzeRepository ==
    /\ pc \in {"idle", "returned", "raised"}
    /\ before.call < MaxCalls
    /\ CallBegun
    /\ \E rem \in RunRepositories :
         \E fail \in InstanceFailures, got \in InstanceCommitOutcomes,
            contributors \in InstanceContributorOutcomes :
             /\ InstanceAnalyzed(analyze_file_structure(rem, fail, file_structure),
                                 analyze_dependencies(rem, fail,
                                     InstanceFetch(get_files_by_extension(rem, fail, ".py"))),
                                 analyze_commit_history(got, contributor_data),
                                 contributors)
             /\ remote' = rem
             /\ failing' = fail
             /\ got_commits' = got
             /\ fetched' = InstanceFetch(get_files_by_extension(rem, fail, ".py"))
             /\ calls' = InstanceCalls(rem, fail, get_files_by_extension(rem, fail, ".py"),
                                       got, contributors)
    /\ repo_data' = [name |-> "repo", owner |-> "owner"]
    /\ repo_url' = "owner/repo"
    /\ phases' = <<"start">> \o PhaseOrder
    /\ escaped' = FALSE
    /\ pc' = "returned"
    /\ UNCHANGED <<content, extracted, exit_code>>

\* analyze_repository on a repository that is not found: the lookup raises
\* before any phase
AnalyzeRepositoryNotFound ==
    /\ pc \in {"idle", "returned", "raised"}
    /\ before.call < MaxCalls
    /\ CallBegun
    /\ calls' = StartCalls(parse_repo_url("owner/repo"), TRUE, FALSE)
    /\ repo_url' = "owner/repo"
    /\ phases' = <<"start">>
    /\ escaped' = TRUE
    /\ pc' = "raised"
    /\ UNCHANGED <<remote, failing, file_structure, build_raised, python_files, content,
                   extracted, dependencies, repo_data, commit_data, contributor_data,
                   contributor_stats, report, caught, fetched, got_commits, languages,
                   exit_code>>

NextInstance == AnalyzeRepository \/ AnalyzeRepositoryNotFound

SpecInstance == InitInstance /\ [][NextInstance]_vars

(***************************************************************************)
(* What the claims about the tree walk speak of.                           *)
(***************************************************************************)
WellFormed(entry) == {"name", "type", "size", "path"} \subseteq DOMAIN entry

ListingWellFormed(listing) == \A i \in 1..Len(listing) : WellFormed(listing[i])

NoMalformed(rem) == \A p \in DOMAIN rem : ListingWellFormed(rem[p])

NoDirs(listing) == \A i \in 1..Len(listing) : listing[i].type # "dir"

NamesOf(listing) == { listing[i].name : i \in 1..Len(listing) }

\* a directory whose subtree the build cannot produce
Unbuildable(rem, fail, dir) == dir \in fail \/ ~ListingWellFormed(rem[dir])

\* the entries reachable from dir through listings that succeed, each with
\* the names leading to it from the root
RECURSIVE ReachFrom(_, _, _, _)
ReachFrom(rem, fail, dir, prefix) ==
    IF Unbuildable(rem, fail, dir) THEN {}
    ELSE UNION { {[at |-> Append(prefix, rem[dir][i].name), entry |-> rem[dir][i]]}
                 \cup (IF rem[dir][i].type = "dir"
                       THEN ReachFrom(rem, fail, rem[dir][i].path,
                                      Append(prefix, rem[dir][i].name))
                       ELSE {}) : i \in 1..Len(rem[dir]) }

NoNode == [type |-> "absent", path |-> "absent"]

RECURSIVE NodeAt(_, _)
NodeAt(tree, at) ==
    IF Head(at) \notin DOMAIN tree THEN NoNode
    ELSE IF Len(at) = 1 THEN tree[Head(at)]
    ELSE IF "children" \in DOMAIN tree[Head(at)]
         THEN NodeAt(tree[Head(at)].children, Tail(at))
         ELSE NoNode

Childless(node) == "children" \in DOMAIN node /\ node.children = EmptyDict

\* the file entries met by a depth-first, pre-order walk of the listings
RECURSIVE PreorderFiles(_, _, _, _)
PreorderFiles(rem, fail, listing, i) ==
    IF i > Len(listing) THEN <<>>
    ELSE (IF listing[i].type = "file" THEN <<listing[i]>>
          ELSE IF listing[i].path \in fail THEN <<>>
          ELSE PreorderFiles(rem, fail, rem[listing[i].path], 1))
         \o PreorderFiles(rem, fail, listing, i + 1)

RECURSIVE PathsWhere(_, _)
PathsWhere(entries, suffix) ==
    IF entries = <<>> THEN <<>>
    ELSE (IF EndsWith(Lower(Head(entries).name), suffix)
          THEN <<Head(entries).path>> ELSE <<>>)
         \o PathsWhere(Tail(entries), suffix)

(***************************************************************************)
(* C1: when only listing calls of nested directories fail, the tree holds  *)
(* a node for every entry reachable through the listings that succeed,     *)
(* every failing directory is a 'dir' node with an empty children mapping, *)
(* and no failure reaches the caller.                                      *)
(***************************************************************************)
C1_PartialTree ==
    (pc # "start" /\ "" \notin failing /\ NoMalformed(remote)) =>
        /\ ~build_raised
        /\ ~escaped
        /\ \A r \in ReachFrom(remote, failing, "", <<>>) :
              LET n == NodeAt(file_structure, r.at)
              IN  /\ n.type = r.entry.type
                  /\ n.path = r.entry.path
                  /\ (r.entry.type = "dir" /\ r.entry.path \in failing) => Childless(n)

\* d/e fails under a d that lists: e is childless, its siblings are kept
C1_Witness ==
    /\ pc = "structured"
    /\ NoMalformed(remote)
    /\ failing = {"d/e"}
    /\ "a.py" \in DOMAIN file_structure
    /\ "d" \in DOMAIN file_structure
    /\ DOMAIN file_structure["d"].children = {"b.md", "e"}
    /\ Childless(file_structure["d"].children["e"])
    /\ Len(remote["d/e"]) > 0

(***************************************************************************)
(* C2 as stated: a listing without directories, two entries of one name    *)
(* included, gives one 'file' child per listing entry, and _count_files    *)
(* equals the length of the listing.                                       *)
(***************************************************************************)
C2_OnePerEntry ==
    (pc # "start" /\ "" \notin failing /\ ListingWellFormed(remote[""])
       /\ NoDirs(remote[""])) =>
        /\ Cardinality(DOMAIN file_structure) = Len(remote[""])
        /\ \A k \in DOMAIN file_structure : file_structure[k].type = "file"
        /\ count_files(file_structure) = Len(remote[""])

(***************************************************************************)
(* C2 amended: a listing without directories gives one 'file' child per    *)
(* distinct name of the listing, and _count_files equals the number of     *)
(* distinct names, which is the length of the listing when no two entries  *)
(* carry the same name.                                                    *)
(***************************************************************************)
C2_OnePerName ==
    (pc # "start" /\ "" \notin failing /\ ListingWellFormed(remote[""])
       /\ NoDirs(remote[""])) =>
        /\ DOMAIN file_structure = NamesOf(remote[""])
        /\ \A k \in DOMAIN file_structure : file_structure[k].type = "file"
        /\ count_files(file_structure) = Cardinality(NamesOf(remote[""]))
        /\ (Cardinality(NamesOf(remote[""])) = Len(remote[""]))
              => count_files(file_structure) = Len(remote[""])

\* two entries named a.py: one child, one file counted
C2_Witness ==
    /\ pc = "structured"
    /\ "" \notin failing
    /\ Len(remote[""]) = 2
    /\ NamesOf(remote[""]) = {"a.py"}
    /\ DOMAIN file_structure = {"a.py"}
    /\ count_files(file_structure) = 1

(***************************************************************************)
(* C3 as stated: the search for ".py" returns the paths of the file        *)
(* entries whose name ends in ".py" compared case-insensitively, in        *)
(* depth-first pre-order of the listing walk.                              *)
(***************************************************************************)
C3_CaseInsensitivePreorder ==
    (pc = "searched" /\ "" \notin failing /\ NoMalformed(remote)) =>
        python_files = PathsWhere(PreorderFiles(remote, failing, remote[""], 1), ".py")

(***************************************************************************)
(* C9 as stated: a malformed entry, at the root or in a nested directory   *)
(* whose listing succeeded, leaves the tree build and its caller as a      *)
(* fatal error.                                                            *)
(***************************************************************************)
C9_MalformedIsFatal ==
    (/\ pc # "start"
     /\ "" \notin failing
     /\ \/ ~ListingWellFormed(remote[""])
        \/ \E r \in ReachFrom(remote, failing, "", <<>>) :
              /\ r.entry.type = "dir"
              /\ r.entry.path \notin failing
              /\ ~ListingWellFormed(remote[r.entry.path]))
    => escaped

(***************************************************************************)
(* C9 amended: every exception raised while a nested directory is listed   *)
(* or built, a malformed entry in its listing included, is caught at that  *)
(* directory, which is recorded with an empty children mapping; a          *)
(* malformed entry of the root listing makes _build_file_tree raise into   *)
(* _analyze_file_structure, which catches it, keeps the file structure it  *)
(* had and returns normally.  No exception of the tree build is fatal.     *)
(***************************************************************************)
C9_EveryFailureDowngraded ==
    (pc # "start") =>
        /\ ~escaped
        /\ build_raised = ("" \notin failing /\ ~ListingWellFormed(remote[""]))
        /\ Unbuildable(remote, failing, "") => file_structure = EmptyDict
        /\ \A r \in ReachFrom(remote, failing, "", <<>>) :
              r.entry.type = "dir" =>
                LET n == NodeAt(file_structure, r.at)
                IN  /\ n.type = "dir"
                    /\ "children" \in DOMAIN n
                    /\ IF Unbuildable(remote, failing, r.entry.path)
                       THEN n.children = EmptyDict
                       ELSE DOMAIN n.children = NamesOf(remote[r.entry.path])

\* d lists a file and a malformed entry: d is childless, the root is kept
C9_Witness ==
    /\ pc = "structured"
    /\ failing = {}
    /\ ListingWellFormed(remote[""])
    /\ "d" \in DOMAIN remote
    /\ Len(remote["d"]) = 2
    /\ remote["d"][1].name = "b.md"
    /\ ~WellFormed(remote["d"][2])
    /\ "a.py" \in DOMAIN file_structure
    /\ Childless(file_structure["d"])

(***************************************************************************)
(* What the claims about the extractor speak of: the lines of the model's  *)
(* sources by the statement they show, and the edges each statement        *)
(* declares.                                                               *)
(***************************************************************************)
Direct == "import"

FromImport == "from_import"

\* lines that show "import <ident>" at line start, indentation allowed
ImportShaped == {"import os", "import os, sys", "    import sys"}

\* lines that show "from <ident> import ..." at line start
FromShaped ==
    {"from collections import defaultdict", "from . import x", "from .pkg import x"}

\* the edges the statement on a line declares: one per imported module, one
\* per from-import that names a module
DeclaredEdges(line) ==
    CASE line = "import os" -> <<Dependency(SourcePath, "os", Direct)>>
      [] line = "import os, sys" ->
            <<Dependency(SourcePath, "os", Direct), Dependency(SourcePath, "sys", Direct)>>
      [] line = "    import sys" -> <<Dependency(SourcePath, "sys", Direct)>>
      [] line = "from collections import defaultdict" ->
            <<Dependency(SourcePath, "collections", FromImport)>>
      [] line = "from .pkg import x" -> <<Dependency(SourcePath, "pkg", FromImport)>>
      [] OTHER -> <<>>

Indented(line) == Len(line) > 0 /\ CharAt(line, 1) = " "

RECURSIVE DeclaredBy(_, _)
\* the declared edges of the indented (nested) or the top-level lines, in
\* source order
DeclaredBy(lines, nested) ==
    IF lines = <<>> THEN <<>>
    ELSE (IF Indented(Head(lines)) = nested THEN DeclaredEdges(Head(lines)) ELSE <<>>)
         \o DeclaredBy(Tail(lines), nested)

\* how many of the first n lines are in the set
CountIn(lines, n, set) == Cardinality({ i \in 1..n : lines[i] \in set })

\* how many edges have the kind
CountKind(deps, kind) ==
    Cardinality({ i \in 1..Len(deps) : deps[i].import_type = kind })

RECURSIVE ClaimedKinds(_)
\* the kinds the fallback is said to produce, line by line
ClaimedKinds(lines) ==
    IF lines = <<>> THEN <<>>
    ELSE (IF Head(lines) \in ImportShaped THEN <<Direct>>
          ELSE IF Head(lines) \in FromShaped THEN <<FromImport>>
          ELSE <<>>)
         \o ClaimedKinds(Tail(lines))

KindsOf(deps) == [i \in 1..Len(deps) |-> deps[i].import_type]

ContentLines == Split(content, "\n")

C5_FallbackKinds ==
    (pc = "extracted" /\ extracted.strategy = "regex") =>
        KindsOf(extracted.deps) = ClaimedKinds(ContentLines)

(***************************************************************************)
(* C6: a source that fails the structured parse and holds a line           *)
(* "import <module>" still gives the edge to <module> of kind Direct for   *)
(* that line, and the lines that match neither pattern give no edge.       *)
(***************************************************************************)
C6_FallbackKeepsImportLine ==
    (pc = "extracted" /\ extracted.strategy = "regex") =>
        /\ Len(extracted.deps)
             = CountIn(ContentLines, Len(ContentLines), ImportShaped \cup FromShaped)
        /\ \A i \in 1..Len(ContentLines) :
              ContentLines[i] = "import os" =>
                LET k == CountIn(ContentLines, i, ImportShaped \cup FromShaped)
                IN  /\ k <= Len(extracted.deps)
                    /\ extracted.deps[k] = Dependency(SourcePath, "os", Direct)

C6_Witness ==
    /\ pc = "extracted"
    /\ content = "import os\nx = ("
    /\ extracted.error = "SyntaxError"
    /\ extracted.deps = <<Dependency(SourcePath, "os", Direct)>>

(***************************************************************************)
(* C7 as stated: the extraction never raises, returns no edge for the      *)
(* empty text, and answers an unexpected error (one that is no syntax      *)
(* error) during a strategy with an empty edge sequence.                   *)
(***************************************************************************)
C7_EmptyOnUnexpectedError ==
    (pc = "extracted") =>
        /\ ~extracted.raised
        /\ content = "" => extracted.deps = <<>>
        /\ extracted.error \notin {"none", "SyntaxError"} => extracted.deps = <<>>

(***************************************************************************)
(* C7 amended: the extraction never raises and returns no edge for the     *)
(* empty text; every error of the structured strategy, a syntax error or   *)
(* any other, is answered by the fallback scan, whose edges (one per line  *)
(* that matches a pattern) are returned.                                   *)
(***************************************************************************)
C7_NeverRaisesFallsBack ==
    (pc = "extracted") =>
        /\ ~extracted.raised
        /\ content = "" => (extracted.deps = <<>> /\ extracted.strategy = "ast")
        /\ extracted.strategy = (IF extracted.error = "none" THEN "ast" ELSE "regex")
        /\ extracted.error # "none" =>
              Len(extracted.deps)
                = CountIn(ContentLines, Len(ContentLines), ImportShaped \cup FromShaped)

\* a NUL byte after an import line: no syntax error, and the edge is returned
C7_Witness ==
    /\ pc = "extracted"
    /\ content = "import os\n" \o Nul
    /\ extracted.error = "ValueError"
    /\ ~extracted.raised
    /\ Len(extracted.deps) = 1

(***************************************************************************)
(* C8 as stated: in the structured strategy a relative from-import, with   *)
(* a module (from .pkg import x) or without one (from . import x), gives   *)
(* no edge: the FromImport edges are those of the absolute from-imports.   *)
(***************************************************************************)
C8_RelativeGivesNoEdge ==
    (pc = "extracted" /\ extracted.strategy = "ast") =>
        CountKind(extracted.deps, FromImport)
          = CountIn(ContentLines, Len(ContentLines),
                    {"from collections import defaultdict"})

(***************************************************************************)
(* C8 amended: in the structured strategy a from-import that names no      *)
(* module (from . import x) gives no edge; a relative from-import that     *)
(* names one (from .pkg import x) gives one FromImport edge to the name    *)
(* as written after the dots ("pkg"); no relative path is resolved.        *)
(***************************************************************************)
C8_UnnamedModuleGivesNoEdge ==
    (pc = "extracted" /\ extracted.strategy = "ast") =>
        /\ \A i \in 1..Len(extracted.deps) :
              /\ extracted.deps[i].to_module \notin {None, "", ".", ".pkg"}
              /\ extracted.deps[i].import_type = FromImport
                    => extracted.deps[i].to_module \in {"collections", "pkg"}
        /\ CountKind(extracted.deps, FromImport)
             = CountIn(ContentLines, Len(ContentLines),
                       {"from collections import defaultdict", "from .pkg import x"})

C8_Witness ==
    /\ pc = "extracted"
    /\ content = "from . import x\nfrom .pkg import x"
    /\ extracted.strategy = "ast"
    /\ extracted.deps = <<Dependency(SourcePath, "pkg", FromImport)>>

(***************************************************************************)
(* What the claim about the phases of a run speaks of.                     *)
(***************************************************************************)
HandledPhases == {"dependencies", "commits", "contributors"}

Ran(phase) == \E i \in 1..Len(phases) : phases[i] = phase

LastPhase == phases[Len(phases)]

CommitKeys == {"total_commits", "file_changes", "commit_frequency", "authors"}

(***************************************************************************)
(* C10: in analyze_repository a failure inside the dependency, commit or   *)
(* contributor phase is caught inside that phase.  The run never raises    *)
(* out of one of these phases; right after such a phase the run stands at  *)
(* the next phase; the phases run in their order, and a run that returned  *)
(* ran them all.  The later phases work on what the failed phase left:     *)
(* the edges gathered from the files that could be analysed, the zeroed    *)
(* commit data after a failed commit listing, no contributor statistics    *)
(* after a failed contributor listing, and the report counts these.        *)
(***************************************************************************)
C10_PhaseFailuresContained ==
    /\ caught \cap HandledPhases # {} => \A p \in caught \cap HandledPhases : Ran(p)
    /\ phases # <<>> =>
          /\ phases = SubSeq(<<"start">> \o PhaseOrder, 1, Len(phases))
          /\ LastPhase \in HandledPhases => pc = After(LastPhase, FALSE)
          /\ pc = "raised" => LastPhase \notin HandledPhases
    /\ pc = "returned" => phases = <<"start">> \o PhaseOrder
    /\ Ran("commits") =>
          /\ DOMAIN commit_data = CommitKeys
          /\ (commit_data.total_commits = 0 /\ "commits" \in caught)
                => commit_data = EmptyCommitData
    /\ (Ran("contributors") /\ "contributors" \in caught) => contributor_stats = EmptyDict
    /\ report # NoReport =>
          /\ report.total_dependencies = Len(dependencies)
          /\ report.total_commits_analyzed = commit_data.total_commits
          /\ report.active_contributors = Cardinality(commit_data.authors)

C10_Witness ==
    /\ pc = "returned"
    /\ HandledPhases \subseteq caught
    /\ Len(dependencies) > 0
    /\ commit_data = EmptyCommitData
    /\ contributor_stats = EmptyDict
    /\ report.total_commits_analyzed = 0
    /\ report.total_dependencies = Len(dependencies)

(***************************************************************************)
(* What the claims about a whole run speak of.                             *)
(***************************************************************************)
RECURSIVE FilePathsOf(_)
\* the paths of the 'file' nodes of a built tree
FilePathsOf(structure) ==
    UNION { IF structure[k].type = "file" THEN {structure[k].path}
            ELSE IF "children" \in DOMAIN structure[k]
                 THEN FilePathsOf(structure[k].children)
                 ELSE {} : k \in DOMAIN structure }

RunEnded == pc \in {"returned", "exited"} /\ Ran("report") /\ ~escaped

(***************************************************************************)
(* C11: at the end of a run, under any pattern of listing successes and    *)
(* failures, every edge of self.dependencies has a from_file that is the   *)
(* path of a 'file' node of the tree the same run built.                   *)
(***************************************************************************)
C11_EdgesFromTreeFiles ==
    RunEnded =>
        \A i \in 1..Len(dependencies) :
            dependencies[i].from_file \in FilePathsOf(file_structure)

RemoteOps == {"get_repo", "get_contents", "get_commits", "get_contributors"}

LastCall == calls[Len(calls)]

Failed(phase, op, arg) == \E i \in 1..Len(calls) : calls[i] = Call(phase, op, arg, FALSE)

RunFailed == pc = "raised" \/ exit_code = 1

(***************************************************************************)
(* C12 as stated: no failed remote call (repository lookup, listing,       *)
(* file fetch, commits, contributors) ends the run or reaches the user as  *)
(* a failure: a run that raised did not raise on a failed remote call.     *)
(***************************************************************************)
C12_NoRemoteFailureIsFatal ==
    (RunFailed /\ calls # <<>>) => ~(LastCall.op \in RemoteOps /\ ~LastCall.ok)

(***************************************************************************)
(* C12 amended: a failed listing, file fetch, commit or contributor call   *)
(* is recovered where it is made, with degraded data (the file structure   *)
(* left empty, the zeroed commit data, no contributor statistics), and     *)
(* the run goes on.  A failed repository lookup is not recovered:          *)
(* analyze_repository raises it again, no phase runs and main returns 1.   *)
(***************************************************************************)
C12_OnlyLookupFailureIsFatal ==
    /\ (RunFailed /\ calls # <<>>) =>
          /\ ~LastCall.ok
          /\ LastCall.op \in {"makedirs", "get_repo", "write"}
    /\ (calls # <<>> /\ LastCall.op = "get_repo" /\ ~LastCall.ok) =>
          /\ pc \in {"raised", "exited"}
          /\ escaped
          /\ phases = <<"start">>
          /\ pc = "exited" => exit_code = 1
    /\ Failed("structure", "get_contents", "") => file_structure = EmptyDict
    /\ Failed("commits", "get_commits", "") => commit_data = EmptyCommitData
    /\ Failed("contributors", "get_contributors", "") => contributor_stats = EmptyDict
    /\ \A i \in 1..Len(calls) :
          (calls[i].op \in RemoteOps \ {"get_repo"} /\ ~calls[i].ok)
             => (Ran(calls[i].phase) /\ (i = Len(calls) => ~RunFailed))

\* every recoverable kind of call has failed and the run returned
C12_Witness ==
    /\ pc = "exited"
    /\ exit_code = 0
    /\ Failed("structure", "get_contents", "d")
    /\ Failed("dependencies", "get_contents", "d/e")
    /\ Failed("dependencies", "get_contents", "a.py")
    /\ Failed("commits", "get_commits", "")
    /\ Failed("contributors", "get_contributors", "")
    /\ report.total_files = 1
    /\ report.total_dependencies = 0

\* an identifier that names no owner/repository pair
NamesNoRepository(url) == ~Contains(url, "/")

(***************************************************************************)
(* C13: main returns 0 exactly when analyze_repository returned without    *)
(* raising and 1 when an error reached it; a repository identifier that    *)
(* names no repository ends the run with exit code 1 before any remote     *)
(* call is made and before the output directory is made.                   *)
(***************************************************************************)
C13_ExitCodes ==
    /\ pc = "exited" =>
          /\ exit_code \in {0, 1}
          /\ exit_code = 0 <=> ~escaped
          /\ exit_code = 0 <=> (phases = <<"start">> \o PhaseOrder /\ report # NoReport)
    /\ pc # "exited" => exit_code = -1
    /\ (phases # <<>> /\ NamesNoRepository(repo_url)) =>
          /\ calls = <<>>
          /\ phases = <<"start">>
          /\ escaped
          /\ pc \in {"raised", "exited"}
          /\ pc = "exited" => exit_code = 1

C13_Witness ==
    /\ pc = "exited"
    /\ repo_url = "owner"
    /\ exit_code = 1
    /\ calls = <<>>
    /\ phases = <<"start">>

\* a fetch that gave a text the extractor is handed
Scanned(outcome) == ~outcome.raised /\ outcome.size <= MaxFileSize /\ outcome.decodable

RECURSIVE EdgesOfScanned(_, _)
\* the edges of the files that were scanned, file after file
EdgesOfScanned(files, outcome) ==
    IF files = <<>> THEN <<>>
    ELSE (IF Scanned(outcome[Head(files)])
          THEN extract_python_imports(outcome[Head(files)].text, Head(files)).deps
          ELSE <<>>)
         \o EdgesOfScanned(Tail(files), outcome)

EdgesFrom(deps, file_path) == SelectSeq(deps, LAMBDA d : d.from_file = file_path)

FetchCalled(file_path) ==
    \E i \in 1..Len(calls) :
        /\ calls[i].phase = "dependencies"
        /\ calls[i].op = "get_contents"
        /\ calls[i].arg = file_path

(***************************************************************************)
(* C14: in the dependency scan a failure while one file is fetched,        *)
(* decoded or extracted stays with that file: the edges gathered from the  *)
(* files before it are kept, the failing file gives no edge, and every     *)
(* file after it is still fetched and scanned (stated of the state the     *)
(* scan leaves, as the commit scan is about to start).                     *)
(***************************************************************************)
C14_FailureConfinedToFile ==
    (pc = "commits" /\ LastPhase = "dependencies") =>
        /\ dependencies = EdgesOfScanned(python_files, fetched)
        /\ \A i \in 1..Len(python_files) :
              /\ FetchCalled(python_files[i])
              /\ (fetched[python_files[i]].raised \/ ~fetched[python_files[i]].decodable)
                    => EdgesFrom(dependencies, python_files[i]) = <<>>

\* the first file gives an edge, the second cannot be decoded, and the first
\* file's edge is kept; in the other order the later file is still scanned
C14_Witness ==
    /\ pc = "commits"
    /\ LastPhase = "dependencies"
    /\ python_files = <<"a.py", "d/e/x.py">>
    /\ fetched["a.py"] = Fetched(10, "import os\nfrom . import x")
    /\ fetched["d/e/x.py"] = Undecodable(10)
    /\ dependencies = <<Dependency("a.py", "os", "import")>>
    /\ "dependencies" \in caught

(***************************************************************************)
(* C15: a source file whose reported size exceeds 1,000,000 bytes is       *)
(* skipped before its text is fetched or decoded and gives no edge; a      *)
(* file of 1,000,000 bytes or less is scanned.                             *)
(***************************************************************************)
C15_OversizeSkippedBeforeFetch ==
    Ran("dependencies") =>
        \A i \in 1..Len(python_files) :
            LET outcome == fetched[python_files[i]]
            IN  /\ (~outcome.raised /\ outcome.size > 1000000) =>
                      /\ ~FetchCalled(python_files[i])
                      /\ EdgesFrom(dependencies, python_files[i]) = <<>>
                /\ (~outcome.raised /\ outcome.size <= 1000000 /\ outcome.decodable) =>
                      EdgesFrom(dependencies, python_files[i])
                        = extract_python_imports(outcome.text, python_files[i]).deps

Pipeline == <<"start">> \o PhaseOrder

PhaseIndex(phase) == CHOOSE i \in 1..Len(Pipeline) : Pipeline[i] = phase

(***************************************************************************)
(* C16: within a run the phases go strictly one after another, tree walk,  *)
(* dependency scan, commit scan, contributor scan, render: the phases that *)
(* have run are a prefix of that order, the phase about to start is the    *)
(* one after the last that finished, and the calls of the phases follow    *)
(* each other in the same order: no call is followed by a call of an       *)
(* earlier phase.                                                          *)
(***************************************************************************)
C16_PhasesInOrder ==
    /\ Len(phases) <= Len(Pipeline)
    /\ \A i \in 1..Len(phases) : phases[i] = Pipeline[i]
    /\ pc \in Range(PhaseOrder) =>
          /\ phases # <<>>
          /\ ~escaped
          /\ PhaseIndex(pc) = Len(phases) + 1
    /\ \A i \in 1..Len(calls) : Ran(calls[i].phase)
    /\ \A i \in 1..(Len(calls) - 1) :
          PhaseIndex(calls[i].phase) <= PhaseIndex(calls[i + 1].phase)

\* a run that returned, with calls made in every phase
C16_Witness ==
    /\ pc = "returned"
    /\ phases = Pipeline
    /\ { calls[i].phase : i \in 1..Len(calls) } = Range(Pipeline)
    /\ Len(python_files) = 2

(***************************************************************************)
(* C17: the caps of the commit scan.                                       *)
(***************************************************************************)
RECURSIVE SumOver(_, _)
\* the sum of the values of d on the keys ks
SumOver(d, ks) ==
    IF ks = {} THEN 0
    ELSE LET k == CHOOSE x \in ks : TRUE IN d[k] + SumOver(d, ks \ {k})

Increments(d) == SumOver(d, DOMAIN d)

Least(a, b) == IF a < b THEN a ELSE b

CommitScanDone == pc = "scanned" /\ ~got_commits.raised

\* C17: whatever the number of commits the remote returns and the number of
\* files of each, the scan inspects the first 100 commits at most and the
\* first 10 files of each at most: no commit and no file past the caps leaves
\* a trace, commit_frequency is incremented once per inspected commit and
\* file_changes once per inspected file, so at most 1000 times in a run
\* (total_commits alone counts the whole list).
C17_ScanCapped ==
    CommitScanDone =>
        LET commits == got_commits.value
            inspected == Least(Len(commits), CommitCap)
            files == IF Len(commits) = 0 THEN 0
                     ELSE Least(Len(commits[1].files), FilesPerCommitCap)
        IN  /\ commit_data.total_commits = Len(commits)
            /\ Increments(commit_data.commit_frequency) = inspected
            /\ Increments(commit_data.file_changes) = inspected * files
            /\ Increments(commit_data.file_changes) <= CommitCap * FilesPerCommitCap
            /\ CommitCap * FilesPerCommitCap = 1000
            /\ "late" \notin commit_data.authors
            /\ "late" \notin DOMAIN contributor_data
            /\ "2024-02-02" \notin DOMAIN commit_data.commit_frequency
            /\ "late.py" \notin DOMAIN commit_data.file_changes

\* a list longer than the cap, of commits with more files than the cap, has
\* been scanned, and file_changes received its 1000 increments
C17_Witness ==
    /\ CommitScanDone
    /\ Len(got_commits.value) > CommitCap
    /\ Len(got_commits.value[1].files) > FilesPerCommitCap
    /\ Increments(commit_data.file_changes) = 1000

(***************************************************************************)
(* C18: the path a node records and the path of its parent.                *)
(***************************************************************************)
RECURSIVE PathsFollow(_, _, _)
\* every node of tree, the children mapping of the node whose path is
\* parent, records parent, "/" and its name, and so on below it; when
\* slashed is FALSE an empty parent path is followed by the name alone
PathsFollow(tree, parent, slashed) ==
    \A name \in DOMAIN tree :
        LET node == tree[name]
        IN  /\ node.path = (IF parent = "" /\ ~slashed THEN name
                            ELSE parent \o "/" \o name)
            /\ (node.type = "dir" /\ "children" \in DOMAIN node)
                  => PathsFollow(node.children, node.path, slashed)

\* C18 as stated: in the tree built, the path of every child is the path of
\* its parent followed by "/" and the name of the child, the path of the
\* root being the empty string.
C18_PathIsParentSlashName ==
    pc # "start" => PathsFollow(file_structure, "", TRUE)

\* C18 amended: in the tree built, the path of a child of the root is its
\* name, and the path of every other child is the path of its parent followed
\* by "/" and the name of the child.
C18_PathIsParentJoinedName ==
    pc # "start" => PathsFollow(file_structure, "", FALSE)

\* a tree three levels deep has been built
C18_Witness ==
    /\ pc = "structured"
    /\ "d" \in DOMAIN file_structure
    /\ "e" \in DOMAIN file_structure["d"].children
    /\ "x.py" \in DOMAIN file_structure["d"].children["e"].children
    /\ file_structure["d"].children["e"].children["x.py"].path = "d/e/x.py"
    /\ file_structure["d"].path = "d"

(***************************************************************************)
(* C19: the language tags of the file nodes and their tally.               *)
(***************************************************************************)
RECURSIVE FileNodes(_)
\* the file nodes of a tree, each with the name it is recorded under
FileNodes(tree) ==
    UNION { IF tree[name].type = "file" THEN {[name |-> name, node |-> tree[name]]}
            ELSE IF "children" \in DOMAIN tree[name] THEN FileNodes(tree[name].children)
            ELSE {} : name \in DOMAIN tree }

\* the table entries that the suffix of name matches when case is ignored
MatchingExtensions(name) ==
    { ext \in DOMAIN Extensions : Suffix(name) # "" /\ Lower(Suffix(name)) = Lower(ext) }

\* C19: every file node is tagged with the language the extension table
\* gives for the final suffix of its name, case ignored, and with "Unknown"
\* when the table has no such suffix or the name has no suffix; the tally of
\* _create_language_distribution counts each file node once under its tag, so
\* its counts sum to _count_files of the tree.
C19_LanguageTagsAndTally ==
    pc = "tallied" =>
        /\ \A f \in FileNodes(file_structure) :
              /\ MatchingExtensions(f.name) = {}  => f.node.language = "Unknown"
              /\ \A ext \in MatchingExtensions(f.name) : f.node.language = Extensions[ext]
        /\ \A lang \in DOMAIN languages :
              languages[lang] =
                  Cardinality({ f \in FileNodes(file_structure) : f.node.language = lang })
        /\ { f.node.language : f \in FileNodes(file_structure) } = DOMAIN languages
        /\ Increments(languages) = count_files(file_structure)

\* a tree with A.PY at the root and t.txt two levels down has been tallied:
\* one Python file, one Unknown file
C19_Witness ==
    /\ pc = "tallied"
    /\ "A.PY" \in DOMAIN file_structure
    /\ "d" \in DOMAIN file_structure
    /\ "e" \in DOMAIN file_structure["d"].children
    /\ "t.txt" \in DOMAIN file_structure["d"].children["e"].children
    /\ languages = ("Python" :> 1) @@ ("Unknown" :> 1)
    /\ count_files(file_structure) = 2

(***************************************************************************)
(* C20: the edges of one extraction come from one strategy.                *)
(***************************************************************************)
\* the edges the structured walk gives for the text, when the text parses
StructuredEdges == WalkEdges(ast_walk(ast_parse(content).tree), SourcePath)

\* the edges the line patterns give for the text
PatternEdges == FallbackEdges(ContentLines, SourcePath)

CallEnded == pc \in {"returned", "raised"} /\ before.call >= 1

\* the root listing and the tree build of the call that ended succeeded
TreeBuilt == pc = "returned" /\ "" \notin failing /\ ~build_raised

\* C21: over the calls made on one instance, a call replaces the file tree
\* only when its root listing and its tree build succeed, and then by the tree
\* of the repository of that call; when they fail, or the call ends before
\* phase 1, the tree held before the call (empty on a fresh instance) is kept
\* as it was, and it is the tree the report of the call counts and the
\* language chart tallies.
C21_TreeReplacedOnlyOnSuccess ==
    CallEnded =>
        /\ file_structure # before.file_structure => TreeBuilt
        /\ TreeBuilt => file_structure = build_file_tree(remote, failing, remote[""]).tree
        /\ ~TreeBuilt => file_structure = before.file_structure
        /\ (pc = "returned" /\ ~TreeBuilt) =>
              /\ report.total_files = count_files(before.file_structure)
              /\ languages = count_languages(before.file_structure, EmptyDict)
        /\ (before.call = 1 /\ ~TreeBuilt) => file_structure = EmptyDict

\* the second call, on a repository of one file, fails at its root listing:
\* the tree of the first call, of two files, is kept and is what the report
\* counts
C21_Witness ==
    /\ pc = "returned"
    /\ before.call = 2
    /\ "" \in failing
    /\ Len(remote[""]) = 1
    /\ "d" \in DOMAIN file_structure
    /\ file_structure = before.file_structure
    /\ report.total_files = 2

(***************************************************************************)
(* C22: the dependency list and contributor_data across the calls made on  *)
(* one instance.                                                           *)
(***************************************************************************)
IsPrefix(s, t) == Len(s) <= Len(t) /\ SubSeq(t, 1, Len(s)) = s

\* C22: over the calls made on one instance, the dependency list a call
\* leaves holds the edges of that call alone (one per source file fetched
\* here), nothing of the list held before, whereas contributor_data keeps
\* every login it held with the files it held, the files of the call
\* appended after them; so the files_owned of a contributor counts the files
\* attributed to the login in this call and in the calls before it.
C22_DependenciesResetOwnershipKept ==
    CallEnded =>
        /\ \A login \in DOMAIN before.contributor_data :
              /\ login \in DOMAIN contributor_data
              /\ IsPrefix(before.contributor_data[login], contributor_data[login])
        /\ pc = "returned" =>
              /\ Len(dependencies) = Len(python_files)
              /\ \A i \in 1..Len(dependencies) :
                    dependencies[i] = Dependency(python_files[i], "os", "import")
              /\ \A login \in DOMAIN contributor_stats :
                    LET earlier == Get(before.contributor_data, login, <<>>)
                        owned == Get(contributor_data, login, <<>>)
                    IN  /\ contributor_stats[login].files_owned = Cardinality(Range(owned))
                        /\ Range(earlier) \subseteq Range(owned)
                        /\ contributor_stats[login].files_owned
                              >= Cardinality(Range(earlier))

\* the first call attributed a.py to alice and left edges; the second call
\* attributes b.py to her and finds no source file: alice owns two files,
\* and the dependency list is empty
C22_Witness ==
    /\ pc = "returned"
    /\ before.call = 2
    /\ before.contributor_data = ("alice" :> <<"a.py">>)
    /\ ~got_commits.raised
    /\ Len(got_commits.value) = 1
    /\ got_commits.value[1].files = <<"b.py">>
    /\ contributor_data = ("alice" :> <<"a.py", "b.py">>)
    /\ "alice" \in DOMAIN contributor_stats
    /\ contributor_stats["alice"].files_owned = 2
    /\ before.dependencies # <<>>
    /\ dependencies = <<>>

(***************************************************************************)
(* C23: the commits the report counts and the commits the scan inspects.   *)
(***************************************************************************)
\* the commits of the listing that the scan inspects
Inspected == Take(got_commits.value, CommitCap)

\* C23: when the commit listing succeeds, total_commits_analyzed of the
\* report is the number of commits the remote returned, whatever the cap of
\* 100 inspected commits, while authors, commit_frequency and file_changes
\* hold nothing but the authors, the dates and the files of the first 100
\* commits; so the counts of commit_frequency sum to at most the lesser of
\* 100 and total_commits_analyzed.
C23_ReportCountsEveryCommit ==
    (pc = "reported" /\ ~got_commits.raised) =>
        /\ report.total_commits_analyzed = Len(got_commits.value)
        /\ commit_data.authors = { Login(Inspected[i]) : i \in 1..Len(Inspected) }
        /\ DOMAIN commit_data.commit_frequency
              = { Inspected[i].date : i \in 1..Len(Inspected) }
        /\ DOMAIN commit_data.file_changes
              \subseteq UNION { Range(Inspected[i].files) : i \in 1..Len(Inspected) }
        /\ report.active_contributors = Cardinality(commit_data.authors)
        /\ Increments(commit_data.commit_frequency)
              <= Least(CommitCap, report.total_commits_analyzed)

\* 101 commits were listed: the report counts 101, the frequencies sum to 100
C23_Witness ==
    /\ pc = "reported"
    /\ ~got_commits.raised
    /\ report.total_commits_analyzed = CommitCap + 1
    /\ Increments(commit_data.commit_frequency) = CommitCap
    /\ commit_data.authors = {"alice"}

====
